---- MODULE Spec2Model ----
(***************************************************************************)
(* Use-case extraction and enrichment pipeline.                            *)
(*                                                                         *)
(* Strings are TLA+ strings.  Concatenation and length are the native \o   *)
(* and Len; the other string functions of the Python code (lower, split,   *)
(* slicing, substring test, regular-expression search) are finite tables   *)
(* over the strings of the bounded input universe.  A table applied to a   *)
(* string outside its domain is an evaluation error, never a guess.        *)
(***************************************************************************)
EXTENDS Integers, Sequences, FiniteSets, TLC

VARIABLES
    \* enrich_use_case applied once and twice to one record
    uc_in, src_text, once, twice, enrich_raised, enrich_pc,
    \* extract_with_smart_fallback: its text, loop state, return value
    fb_text, fb, fb_result, fb_pc,
    \* extract_use_cases_single_stage / extract_use_cases_batch: one call
    ex_mode, ex_text, max_use_cases, ex_pc, response, use_cases, batch_num,
    llm_calls, batch_log, ex_result, ex_raised,
    \* DocumentChunker.merge_extracted_use_cases: one call
    chunk_results, chunk_idx, all_merged, seen_merged, merge_result, merge_pc,
    \* get_smart_max_use_cases: one call, on the counts taken from its text
    est_details, est_estimate, smart_max, est_pc,
    \* get_smart_token_budget: the calls made so far
    tb_log,
    \* flatten_use_case: one call
    fl_data, fl_flat, fl_pc,
    \* DocumentChunker._chunk_by_sentences: one call
    sc_max_tokens, sc_sentences, sc_idx, current_sentences, current_ids, sc_chunks, sc_chunk_ids, sc_cuts, sc_pc,
    \* parse_use_case_fast / parse_large_document_chunked: validate and store
    st_path, use_cases_raw, validated_use_cases, validation_results, db_rows, existing_texts, results, stored_count, st_response, st_log, st_idx, st_pc,
    \* parse_large_document_chunked: the loop over the chunks
    ck_chunks, ck_idx, all_chunk_results, chunk_summaries, ck_order, ck_pc,
    \* parse_use_case_fast: the response
    pr_response, pr_pc,
    \* DocumentChunker._chunk_by_sections / _chunk_by_paragraphs: one call
    un_strategy, un_max_tokens, un_parts, un_todo, current_chunk, un_chunks, un_log, un_pc,
    \* clean_llm_json: one call
    cj_input, cj_result, cj_pc,
    \* conversation_history table and one read of it for the prompt
    hs_table, hs_limit, conversation_history, hs_context, hs_pc,
    \* two parse_use_case_fast requests on one session, each in its own thread
    rc_rows, rc_use_cases, rc_existing, rc_results, rc_pc,
    \* parse_use_case_fast, direct path: the extraction chosen and the one reported
    md_details, md_stats, md_estimate, md_ran, extraction_method, md_pc

enrichVars == <<uc_in, src_text, once, twice, enrich_raised, enrich_pc>>
fallbackVars == <<fb_text, fb, fb_result, fb_pc>>
extractVars == <<ex_mode, ex_text, max_use_cases, ex_pc, response, use_cases,
                 batch_num, llm_calls, batch_log, ex_result, ex_raised>>
mergeVars == <<chunk_results, chunk_idx, all_merged, seen_merged, merge_result, merge_pc>>
estimateVars == <<est_details, est_estimate, smart_max, est_pc>>
budgetVars == <<tb_log>>
flattenVars == <<fl_data, fl_flat, fl_pc>>
sentenceVars == <<sc_max_tokens, sc_sentences, sc_idx, current_sentences, current_ids, sc_chunks, sc_chunk_ids, sc_cuts, sc_pc>>
storeVars == <<st_path, use_cases_raw, validated_use_cases, validation_results, db_rows, existing_texts, results, stored_count, st_response, st_log, st_idx, st_pc>>
chunkVars == <<ck_chunks, ck_idx, all_chunk_results, chunk_summaries, ck_order, ck_pc>>
parseVars == <<pr_response, pr_pc>>
unitVars == <<un_strategy, un_max_tokens, un_parts, un_todo, current_chunk, un_chunks, un_log, un_pc>>
cleanVars == <<cj_input, cj_result, cj_pc>>
historyVars == <<hs_table, hs_limit, conversation_history, hs_context, hs_pc>>
raceVars == <<rc_rows, rc_use_cases, rc_existing, rc_results, rc_pc>>
methodVars == <<md_details, md_stats, md_estimate, md_ran, extraction_method, md_pc>>
vars == <<uc_in, src_text, once, twice, enrich_raised, enrich_pc,
          fb_text, fb, fb_result, fb_pc,
          ex_mode, ex_text, max_use_cases, ex_pc, response, use_cases,
          batch_num, llm_calls, batch_log, ex_result, ex_raised,
          chunk_results, chunk_idx, all_merged, seen_merged, merge_result, merge_pc,
          est_details, est_estimate, smart_max, est_pc,
          tb_log,
          fl_data, fl_flat, fl_pc,
          sc_max_tokens, sc_sentences, sc_idx, current_sentences, current_ids, sc_chunks, sc_chunk_ids, sc_cuts, sc_pc,
          st_path, use_cases_raw, validated_use_cases, validation_results, db_rows, existing_texts, results, stored_count, st_response, st_log, st_idx, st_pc,
          ck_chunks, ck_idx, all_chunk_results, chunk_summaries, ck_order, ck_pc,
          pr_response, pr_pc,
          un_strategy, un_max_tokens, un_parts, un_todo, current_chunk, un_chunks, un_log, un_pc,
          cj_input, cj_result, cj_pc,
          hs_table, hs_limit, conversation_history, hs_context, hs_pc,
          rc_rows, rc_use_cases, rc_existing, rc_results, rc_pc,
          md_details, md_stats, md_estimate, md_ran, extraction_method, md_pc>>

----------------------------------------------------------------------------
\* Generic sequence helpers (Python list idioms)

Max(a, b) == IF a > b THEN a ELSE b

\* Python's min with the comparison turned round
MinAsMax(a, b) == IF a < b THEN b ELSE a

Min(a, b) == IF a < b THEN a ELSE b

\* seq[:n]
Take(seq, n) == SubSeq(seq, 1, Min(n, Len(seq)))

\* s in seq
InSeq(s, seq) == \E i \in 1..Len(seq) : seq[i] = s

\* { f(seq[i]) }
Range(seq) == { seq[i] : i \in 1..Len(seq) }

----------------------------------------------------------------------------
\* BEGIN string tables
LowerTable ==
    ("User searches catalog items" :> "user searches catalog items") @@
    ("User browses the catalog" :> "user browses the catalog") @@
    ("User is authenticated and authorized" :> "user is authenticated and authorized") @@
    ("System is operational and available" :> "system is operational and available") @@
    ("" :> "") @@
    ("User" :> "user") @@
    ("System" :> "system") @@
    ("Database" :> "database") @@
    ("Admin" :> "admin") @@
    ("User is logged in" :> "user is logged in") @@
    ("user is authenticated and authorized" :> "user is authenticated and authorized") @@
    ("Required data and services are accessible" :> "required data and services are accessible") @@
    ("Login" :> "login") @@
    ("Authentication" :> "authentication") @@
    ("Search Books" :> "search books") @@
    ("Search" :> "search") @@
    ("User searches the catalog" :> "user searches the catalog") @@
    ("Admin manages user accounts" :> "admin manages user accounts") @@
    ("Use Case 1" :> "use case 1") @@
    ("Use" :> "use") @@
    ("Use Case 2" :> "use case 2") @@
    ("Use Case 3" :> "use case 3") @@
    ("Use Case 4" :> "use case 4") @@
    ("Use Case 5" :> "use case 5") @@
    ("Use Case 6" :> "use case 6") @@
    ("Use Case 7" :> "use case 7") @@
    ("Use Case 8" :> "use case 8") @@
    ("Use Case 9" :> "use case 9") @@
    ("Use Case 10" :> "use case 10") @@
    ("Use Case 11" :> "use case 11") @@
    ("Use Case 12" :> "use case 12") @@
    ("Export is supported" :> "export is supported") @@
    ("User can export data in various formats" :> "user can export data in various formats") @@
    ("If no results are found" :> "if no results are found") @@
    ("Requests may timeout" :> "requests may timeout") @@
    ("Users can also filter results by date. If payment fails, show an error" :> "users can also filter results by date. if payment fails, show an error") @@
    ("User can Filter results by date" :> "user can filter results by date") @@
    ("User can apply filters to refine results" :> "user can apply filters to refine results") @@
    ("If no data then timeout" :> "if no data then timeout") @@
    ("user can track shipment updates" :> "user can track shipment updates") @@
    ("User can Track shipment updates" :> "user can track shipment updates") @@
    (" login " :> " login ")

WordCountTable ==
    ("User searches catalog items" :> 4) @@
    ("User browses the catalog" :> 4) @@
    ("" :> 0) @@
    ("User " :> 1) @@
    ("Admin " :> 1) @@
    ("Login" :> 1) @@
    ("User Login" :> 2) @@
    ("Admin Login" :> 2) @@
    ("Authentication" :> 1) @@
    ("User Authentication" :> 2) @@
    ("Admin Authentication" :> 2) @@
    ("Search Books" :> 2) @@
    ("User Search Books" :> 3) @@
    ("Admin Search Books" :> 3) @@
    ("User searches the catalog" :> 4) @@
    ("Admin manages user accounts" :> 4) @@
    ("Use Case 1" :> 3) @@
    ("Use Case 2" :> 3) @@
    ("Use Case 3" :> 3) @@
    ("Use Case 4" :> 3) @@
    ("Use Case 5" :> 3) @@
    ("Use Case 6" :> 3) @@
    ("Use Case 7" :> 3) @@
    ("Use Case 8" :> 3) @@
    ("Use Case 9" :> 3) @@
    ("Use Case 10" :> 3) @@
    ("Use Case 11" :> 3) @@
    ("Use Case 12" :> 3)

FirstWordTable ==
    ("Login" :> "Login") @@
    ("Authentication" :> "Authentication") @@
    ("Search Books" :> "Search") @@
    ("User searches the catalog" :> "User") @@
    ("Admin manages user accounts" :> "Admin") @@
    ("Use Case 1" :> "Use") @@
    ("Use Case 2" :> "Use") @@
    ("Use Case 3" :> "Use") @@
    ("Use Case 4" :> "Use") @@
    ("Use Case 5" :> "Use") @@
    ("Use Case 6" :> "Use") @@
    ("Use Case 7" :> "Use") @@
    ("Use Case 8" :> "Use") @@
    ("Use Case 9" :> "Use") @@
    ("Use Case 10" :> "Use") @@
    ("Use Case 11" :> "Use") @@
    ("Use Case 12" :> "Use")

Prefix20Table ==
    ("User navigates to the relevant section" :> "user navigates to th") @@
    ("User initiates perform action operation" :> "user initiates perfo") @@
    ("System validates the request and user permissions" :> "system validates the") @@
    ("System processes the perform action request" :> "system processes the") @@
    ("System updates relevant data and logs the action" :> "system updates relev") @@
    ("User opens the page" :> "user opens the page") @@
    ("User enters criteria" :> "user enters criteria") @@
    ("System displays results" :> "system displays resu") @@
    ("Login navigates to the relevant section" :> "login navigates to t") @@
    ("Login initiates login operation" :> "login initiates logi") @@
    ("System processes the login request" :> "system processes the") @@
    ("Authentication navigates to the relevant section" :> "authentication navig") @@
    ("Authentication initiates perform action operation" :> "authentication initi") @@
    ("Search navigates to the relevant section" :> "search navigates to ") @@
    ("Search initiates search operation" :> "search initiates sea") @@
    ("System processes the search request" :> "system processes the") @@
    ("User initiates search operation" :> "user initiates searc") @@
    ("Admin navigates to the relevant section" :> "admin navigates to t") @@
    ("Admin initiates manage operation" :> "admin initiates mana") @@
    ("System processes the manage request" :> "system processes the")

Lower50Table ==
    ("If validation fails: System displays specific error message and prompts User to correct input" :> "if validation fails: system displays specific erro") @@
    ("If system error occurs: System logs error, notifies support team, and displays user-friendly message" :> "if system error occurs: system logs error, notifie") @@
    ("If network timeout: System automatically retries and informs user of delay" :> "if network timeout: system automatically retries a") @@
    ("If validation fails: System displays specific error message and prompts Login to correct input" :> "if validation fails: system displays specific erro") @@
    ("If validation fails: System displays specific error message and prompts Authentication to correct input" :> "if validation fails: system displays specific erro") @@
    ("If validation fails: System displays specific error message and prompts Search to correct input" :> "if validation fails: system displays specific erro") @@
    ("If validation fails: System displays specific error message and prompts Admin to correct input" :> "if validation fails: system displays specific erro") @@
    ("If validation fails: System displays specific error message and prompts Use to correct input" :> "if validation fails: system displays specific erro") @@
    ("If no results are found: System notifies user and provides guidance" :> "if no results are found: system notifies user and ") @@
    ("If payment: show an error" :> "if payment: show an error") @@
    ("If payment: System handles the failure appropriately" :> "if payment: system handles the failure appropriate") @@
    ("If no data then timeout: System notifies user and provides guidance" :> "if no data then timeout: system notifies user and ")

CapFirstTable ==
    ("filter results by date" :> "Filter results by date") @@
    ("track shipment updates" :> "Track shipment updates")

StartsWithCanTable ==
    ("Filter results by date" :> FALSE) @@
    ("Track shipment updates" :> FALSE)

ContainsPairs ==
    {<<"login", "login">>,
     <<"search books", "search">>,
     <<"user searches the catalog", "search">>,
     <<"admin manages user accounts", "manage">>,
     <<"admin manages user accounts", "admin">>,
     <<"export is supported", "export">>,
     <<"users can also filter results by date. if payment fails, show an error", "filter">>,
     <<"system", "system">>,
     <<"user browses the catalog", "browse">>,
     <<"user browses the catalog", "log">>,
     <<"user searches catalog items", "log">>,
     <<"user searches catalog items", "search">>,
     <<"user searches the catalog", "log">>}

OptFindAllTable ==
    ("" :> <<>>) @@
    ("Export is supported" :> <<>>) @@
    ("If no results are found" :> <<>>) @@
    ("Requests may timeout" :> <<>>) @@
    ("Users can also filter results by date. If payment fails, show an error" :> <<"filter results by date", "filter results by date">>) @@
    ("If no data then timeout" :> <<>>) @@
    ("user can track shipment updates" :> <<"track shipment updates">>)

ErrFindAllTable ==
    ("" :> <<>>) @@
    ("Export is supported" :> <<>>) @@
    ("If no results are found" :> <<[p |-> 3, g |-> <<"results are found">>]>>) @@
    ("Requests may timeout" :> <<[p |-> 6, g |-> <<>>]>>) @@
    ("Users can also filter results by date. If payment fails, show an error" :> <<[p |-> 1, g |-> <<"payment", "show an error">>], [p |-> 8, g |-> <<"payment">>]>>) @@
    ("If no data then timeout" :> <<[p |-> 3, g |-> <<"data then timeout">>], [p |-> 6, g |-> <<>>]>>) @@
    ("user can track shipment updates" :> <<>>)
\* END string tables

\* str.lower()
Lower(s) == LowerTable[s]

\* len(title.split())
WordCount(s) == WordCountTable[s]

\* title.split()[0]
FirstWord(s) == FirstWordTable[s]

\* s.lower()[:20]
Prefix20(s) == Prefix20Table[s]

\* s.lower()[:50]
Lower50(s) == Lower50Table[s]

\* feature[0].upper() + feature[1:]
CapFirst(s) == CapFirstTable[s]

\* feature.lower().startswith("can ")
StartsWithCan(s) == StartsWithCanTable[s]

\* sub in s, for s a lower-cased title or text
Contains(s, sub) == <<s, sub>> \in ContainsPairs

----------------------------------------------------------------------------
\* Requirement text: sentences separated by ". ", clauses separated by ", ".
\* A clause is free text or one of the three shapes the fallback extractor's
\* regular expressions recognise.

Plain(t) == [form |-> "plain", txt |-> t, actor |-> "", verb |-> "", obj |-> ""]
Modal(a, v, o) == [form |-> "modal", txt |-> "", actor |-> a, verb |-> v, obj |-> o]
Platform(a, v, o) == [form |-> "platform", txt |-> "", actor |-> a, verb |-> v, obj |-> o]
Article(a, v, o) == [form |-> "article", txt |-> "", actor |-> a, verb |-> v, obj |-> o]

RenderClause(c) ==
    CASE c.form = "modal" -> c.actor \o " can " \o c.verb \o " " \o c.obj
      [] c.form = "platform" -> "platform should allow " \o c.actor \o " " \o c.verb \o " " \o c.obj
      [] c.form = "article" -> c.actor \o " " \o c.verb \o " the " \o c.obj
      [] c.form = "plain" -> c.txt

RECURSIVE Join(_, _, _)
Join(strs, sep, i) ==
    IF i > Len(strs) THEN ""
    ELSE IF i = Len(strs) THEN strs[i]
    ELSE strs[i] \o sep \o Join(strs, sep, i + 1)

RenderSentence(s) == Join([i \in 1..Len(s) |-> RenderClause(s[i])], ", ", 1)
RenderText(t) == Join([i \in 1..Len(t) |-> RenderSentence(t[i])], ". ", 1)

TextEmpty == <<>>
TextExport == << <<Plain("Export is supported")>> >>
TextNoResults == << <<Plain("If no results are found")>> >>
TextTimeout == << <<Plain("Requests may timeout")>> >>
TextFilterFail == << <<Plain("Users can also filter results by date")>>,
                     <<Plain("If payment fails"), Plain("show an error")>> >>
TextNoDataTimeout == << <<Plain("If no data then timeout")>> >>
TextTrack == << <<Modal("user", "track", "shipment updates")>> >>

EnrichTexts == {TextEmpty, TextExport, TextNoResults, TextTimeout,
                TextFilterFail, TextNoDataTimeout, TextTrack}

----------------------------------------------------------------------------
\* use_case_enrichment.py

\* re.findall over optional_patterns, in pattern order, each match stripped
OptFindAll(text) == OptFindAllTable[text]

\* re.finditer over error_patterns, in pattern order: the pattern's number
\* and its stripped groups (pattern 6, "timeout", has no group)
ErrFindAll(text) == ErrFindAllTable[text]

keyword_features ==
    << <<"filter", "User can apply filters to refine results">>,
       <<"sort", "User can sort results by different criteria">>,
       <<"export", "User can export data in various formats">>,
       <<"customize", "User can customize display settings">>,
       <<"save", "User can save searches for later use">> >>

RECURSIVE PatternFeatures(_, _, _)
PatternFeatures(ms, i, acc) ==
    IF i > Len(ms) THEN acc
    ELSE LET feature == ms[i] IN
         IF 10 < Len(feature) /\ Len(feature) < 100
         THEN LET cap == CapFirst(feature) IN
              PatternFeatures(ms, i + 1,
                  Append(acc, IF StartsWithCan(cap) THEN "User " \o cap
                              ELSE "User can " \o cap))
         ELSE PatternFeatures(ms, i + 1, acc)

RECURSIVE KeywordFeatures(_, _, _)
KeywordFeatures(text_lower, i, acc) ==
    IF i > Len(keyword_features) THEN acc
    ELSE LET keyword == keyword_features[i][1]
             feature == keyword_features[i][2] IN
         IF Contains(text_lower, keyword) /\ ~InSeq(feature, acc)
         THEN KeywordFeatures(text_lower, i + 1, Append(acc, feature))
         ELSE KeywordFeatures(text_lower, i + 1, acc)

\* order-preserving removal of items whose key was already seen
RECURSIVE UniqueBy(_, _, _, _, _)
UniqueBy(Key(_), items, i, seen, acc) ==
    IF i > Len(items) THEN acc
    ELSE IF Key(items[i]) \in seen THEN UniqueBy(Key, items, i + 1, seen, acc)
    ELSE UniqueBy(Key, items, i + 1, seen \cup {Key(items[i])}, Append(acc, items[i]))

extract_optional_features(text, title) ==
    LET mined == PatternFeatures(OptFindAll(text), 1, <<>>)
        optional_features == KeywordFeatures(Lower(text), 1, mined)
    IN Take(UniqueBy(Lower, optional_features, 1, {}, <<>>), 4)

\* template.format(groups) for the patterns that have groups
ErrorTemplate(p, g) ==
    CASE p = 1 -> "If " \o g[1] \o ": " \o g[2]
      [] p = 2 -> "If " \o g[1] \o " is unavailable: System displays message and suggests alternatives"
      [] p = 3 -> "If no " \o g[1] \o ": System notifies user and provides guidance"
      [] p = 4 -> "If unable to " \o g[1] \o ": System logs issue and notifies administrator"
      [] p = 5 -> "If cannot " \o g[1] \o ": System provides fallback option"
      [] p = 7 -> "If invalid " \o g[1] \o ": System displays validation error with specific guidance"
      [] p = 8 -> "If " \o g[1] \o ": System handles the failure appropriately"

\* the local variable error_case before its first assignment
Unbound == "<unbound>"

\* The match loop.  A match without groups (pattern 6) assigns nothing to
\* error_case: the value of the previous iteration is appended again, and
\* if there is none the read raises UnboundLocalError.
RECURSIVE ErrorLoop(_, _, _, _)
ErrorLoop(ms, i, error_case, acc) ==
    IF i > Len(ms) THEN [raised |-> FALSE, cases |-> acc]
    ELSE LET cur == IF Len(ms[i].g) >= 1 THEN ErrorTemplate(ms[i].p, ms[i].g)
                    ELSE error_case IN
         IF cur = Unbound THEN [raised |-> TRUE, cases |-> acc]
         ELSE ErrorLoop(ms, i + 1, cur,
                        IF Len(cur) < 150 THEN Append(acc, cur) ELSE acc)

keyword_errors ==
    << <<"fail", "If operation fails: System displays error message and logs the failure">>,
       <<"error", "If error occurs: System shows user-friendly message and notifies support">>,
       <<"unavailable", "If service is unavailable: System retries and provides status updates">>,
       <<"invalid", "If invalid input: System highlights errors and guides correction">> >>

RECURSIVE KeywordErrors(_, _, _)
KeywordErrors(text_lower, i, acc) ==
    IF i > Len(keyword_errors) THEN acc
    ELSE IF Contains(text_lower, keyword_errors[i][1]) /\ ~InSeq(keyword_errors[i][2], acc)
    THEN KeywordErrors(text_lower, i + 1, Append(acc, keyword_errors[i][2]))
    ELSE KeywordErrors(text_lower, i + 1, acc)

\* title.split()[0] if title else "User"
ActorOf(title) == IF title # "" THEN FirstWord(title) ELSE "User"

extract_error_cases(text, title) ==
    LET loop == ErrorLoop(ErrFindAll(text), 1, Unbound, <<>>)
        withKeywords == IF loop.cases = <<>> THEN KeywordErrors(Lower(text), 1, <<>>)
                        ELSE loop.cases
        actor == ActorOf(title)
        error_cases ==
            IF withKeywords = <<>>
            THEN << "If validation fails: System displays specific error message and prompts "
                        \o actor \o " to correct input",
                    "If system error occurs: System logs error, notifies support team, and displays user-friendly message",
                    "If network timeout: System automatically retries and informs user of delay" >>
            ELSE withKeywords
    IN IF loop.raised THEN [raised |-> TRUE, cases |-> <<>>]
       ELSE [raised |-> FALSE,
             cases |-> Take(UniqueBy(Lower50, error_cases, 1, {}, <<>>), 4)]

\* --- enrich_use_case, field by field.  `title` is the title on entry: the
\* code reads it once and uses that value for every later field.

EnrichTitle(x) ==
    IF WordCount(x.title) < 3 /\ x.stakeholders # <<>>
    THEN (IF x.stakeholders[1] # "System" THEN x.stakeholders[1] ELSE "User")
             \o " " \o x.title
    ELSE x.title

default_preconditions ==
    << "User is authenticated and authorized",
       "System is operational and available",
       "Required data and services are accessible" >>

\* [p for p in preconditions if p]
Truthy(seq) == SelectSeq(seq, LAMBDA p : p # "")

RECURSIVE AddDefaultPreconditions(_, _, _)
AddDefaultPreconditions(i, existing, acc) ==
    IF i > Len(default_preconditions) \/ Len(acc) >= 2 THEN acc
    ELSE IF Lower(default_preconditions[i]) \notin existing
    THEN AddDefaultPreconditions(i + 1, existing, Append(acc, default_preconditions[i]))
    ELSE AddDefaultPreconditions(i + 1, existing, acc)

EnrichPreconditions(x) ==
    IF Len(x.preconditions) < 2
    THEN LET existing == { Lower(p) : p \in Range(Truthy(x.preconditions)) }
         IN AddDefaultPreconditions(1, existing, <<>>) \o Truthy(x.preconditions)
    ELSE x.preconditions

action_verbs ==
    << "view", "search", "add", "create", "update", "delete", "download",
       "upload", "login", "register", "pay", "submit", "confirm", "verify",
       "select", "filter", "manage", "configure" >>

\* next((verb for verb in action_verbs if verb in title_lower), "perform action")
RECURSIVE FirstVerbIn(_, _)
FirstVerbIn(title_lower, i) ==
    IF i > Len(action_verbs) THEN "perform action"
    ELSE IF Contains(title_lower, action_verbs[i]) THEN action_verbs[i]
    ELSE FirstVerbIn(title_lower, i + 1)

comprehensive_flow(actor, action) ==
    << actor \o " navigates to the relevant section",
       actor \o " initiates " \o action \o " operation",
       "System validates the request and user permissions",
       "System processes the " \o action \o " request",
       "System updates relevant data and logs the action",
       "System confirms successful completion",
       actor \o " receives confirmation message" >>

\* Keep existing steps and append the missing ones up to 5.  Every
\* synthesized step has at least 20 characters, so "its first 20 characters
\* occur in the first 20 characters of an existing step" is equality of the
\* two 20-character prefixes.
RECURSIVE MergeFlow(_, _, _)
MergeFlow(cur, comp, i) ==
    IF i > Len(comp) \/ Len(cur) >= 5 THEN cur
    ELSE IF \E j \in 1..Len(cur) : Prefix20(comp[i]) = Prefix20(cur[j])
    THEN MergeFlow(cur, comp, i + 1)
    ELSE MergeFlow(Append(cur, comp[i]), comp, i + 1)

EnrichMainFlow(x) ==
    IF Len(x.main_flow) < 4
    THEN LET comp == comprehensive_flow(ActorOf(x.title), FirstVerbIn(Lower(x.title), 1))
         IN IF x.main_flow # <<>> THEN MergeFlow(x.main_flow, comp, 1)
            ELSE Take(comp, 6)
    ELSE x.main_flow

EnrichSubFlows(x, text) ==
    IF Len(x.sub_flows) < 2
    THEN LET optional_features == extract_optional_features(text, x.title)
             actor == ActorOf(x.title)
         IN IF optional_features # <<>> THEN optional_features
            ELSE << actor \o " can view additional details and information",
                    actor \o " can customize settings and preferences",
                    actor \o " can save work and return later" >>
    ELSE x.sub_flows

EnrichAlternateFlows(x, text) ==
    IF Len(x.alternate_flows) < 2
    THEN LET error_cases == extract_error_cases(text, x.title).cases
             actor == ActorOf(x.title)
         IN IF error_cases # <<>> THEN error_cases
            ELSE << "If validation fails: System displays specific error message and prompts "
                        \o actor \o " to correct input",
                    "If system timeout: System retries operation automatically and notifies " \o actor,
                    "If " \o actor \o " lacks required permissions: System denies access and logs attempt",
                    "If network error: System caches request and retries when connection is restored" >>
    ELSE x.alternate_flows

EnrichOutcomes(x) ==
    IF Len(x.outcomes) < 1
    THEN << x.title \o " is completed successfully",
            "System state is updated appropriately",
            "All changes are logged for audit purposes" >>
    ELSE x.outcomes

default_stakeholders(title) ==
    LET t == Lower(title) IN
    << ActorOf(title), "System", "Database" >>
    \o (IF Contains(t, "admin") \/ Contains(t, "manage") THEN <<"Administrator">> ELSE <<>>)
    \o (IF Contains(t, "pay") \/ Contains(t, "purchase")
        THEN <<"Payment Gateway", "Financial System">> ELSE <<>>)
    \o (IF Contains(t, "email") \/ Contains(t, "notification") THEN <<"Email Service">> ELSE <<>>)
    \o (IF Contains(t, "report") \/ Contains(t, "analytics") THEN <<"Analytics System">> ELSE <<>>)

\* existing_lower is computed once, before the loop
RECURSIVE MergeStakeholders(_, _, _, _)
MergeStakeholders(cur, defaults, i, existing_lower) ==
    IF i > Len(defaults) THEN cur
    ELSE IF Lower(defaults[i]) \notin existing_lower
    THEN (IF Len(cur) + 1 >= 3 THEN Append(cur, defaults[i])
          ELSE MergeStakeholders(Append(cur, defaults[i]), defaults, i + 1, existing_lower))
    ELSE MergeStakeholders(cur, defaults, i + 1, existing_lower)

EnrichStakeholders(x) ==
    IF Len(x.stakeholders) < 2
    THEN MergeStakeholders(x.stakeholders, default_stakeholders(x.title), 1,
                           { Lower(s) : s \in Range(x.stakeholders) })
    ELSE x.stakeholders

\* enrich_use_case raises exactly when extract_error_cases does
EnrichRaises(x, text) ==
    Len(x.alternate_flows) < 2 /\ extract_error_cases(text, x.title).raised

enrich_use_case(x, text) ==
    [ title |-> EnrichTitle(x),
      preconditions |-> EnrichPreconditions(x),
      main_flow |-> EnrichMainFlow(x),
      sub_flows |-> EnrichSubFlows(x, text),
      alternate_flows |-> EnrichAlternateFlows(x, text),
      outcomes |-> EnrichOutcomes(x),
      stakeholders |-> EnrichStakeholders(x) ]

----------------------------------------------------------------------------
\* use_case_manager.py: extract_with_smart_fallback

ACTION_VERBS ==
    << "login", "logout", "register", "sign in", "sign up", "authenticate",
       "search", "find", "browse", "filter", "sort", "view", "display", "show",
       "add", "create", "insert", "new", "submit", "post", "edit", "update",
       "modify", "change", "revise", "adjust", "delete", "remove", "cancel",
       "clear", "erase", "download", "upload", "export", "import", "backup",
       "back up", "purchase", "buy", "checkout", "pay", "order", "track",
       "monitor", "review", "rate", "comment", "approve", "reject", "verify",
       "validate", "check", "send", "receive", "share", "notify", "alert",
       "configure", "customize", "manage", "administer", "control", "select",
       "choose", "pick", "click", "tap", "message", "chat", "call", "dial",
       "connect", "sync", "synchronize", "refresh", "reload", "flag", "report",
       "block", "mute", "unmute", "enable", "disable", "toggle", "switch",
       "turn on", "turn off", "queue", "handle", "process", "forward",
       "encrypt", "decrypt", "protect", "secure", "log", "record", "store",
       "save", "cache" >>

ACTORS ==
    << "user", "customer", "admin", "administrator", "manager", "employee",
       "staff", "member", "visitor", "guest", "buyer", "seller", "vendor",
       "supplier", "student", "teacher", "instructor", "patient", "doctor",
       "nurse", "system", "application", "platform" >>

\* actor.capitalize()
Capitalize(actor) ==
    (("user" :> "User") @@ ("customer" :> "Customer") @@ ("admin" :> "Admin") @@
     ("administrator" :> "Administrator") @@ ("manager" :> "Manager") @@
     ("employee" :> "Employee") @@ ("staff" :> "Staff") @@ ("member" :> "Member") @@
     ("visitor" :> "Visitor") @@ ("guest" :> "Guest") @@ ("buyer" :> "Buyer") @@
     ("seller" :> "Seller") @@ ("vendor" :> "Vendor") @@ ("supplier" :> "Supplier") @@
     ("student" :> "Student") @@ ("teacher" :> "Teacher") @@
     ("instructor" :> "Instructor") @@ ("patient" :> "Patient") @@
     ("doctor" :> "Doctor") @@ ("nurse" :> "Nurse") @@ ("system" :> "System") @@
     ("application" :> "Application") @@ ("platform" :> "Platform"))[actor]

\* the cap on the number of fallback use cases
FallbackCap == 15

\* sentences = [s.strip() for s in re.split(r"[.!?]+", text) if len(s.strip()) > 20]
FallbackSentences(text) == SelectSeq(text, LAMBDA s : Len(RenderSentence(s)) > 20)

\* re.findall(patterns[k], sentence_lower) for one actor: the (verb, object)
\* pairs, in sentence order.
\*   1  "<actor> <modal> <verb> <object>"
\*   2  "platform should let/allow <actor> <verb> <object>"
\*   3  "<actor> <verb> the/their/a/an <object>"
\* Pattern 1 with actor "platform" also matches a clause of shape 2, taking
\* "allow" for the verb and the rest of the clause for the object.
PatternMatch(k, actor, c) ==
    CASE k = 1 /\ c.form = "modal" /\ c.actor = actor -> << <<c.verb, c.obj>> >>
      [] k = 1 /\ c.form = "platform" /\ actor = "platform" ->
             << <<"allow", c.actor \o " " \o c.verb \o " " \o c.obj>> >>
      [] k = 2 /\ c.form = "platform" /\ c.actor = actor -> << <<c.verb, c.obj>> >>
      [] k = 3 /\ c.form = "article" /\ c.actor = actor -> << <<c.verb, c.obj>> >>
      [] OTHER -> <<>>

RECURSIVE FindAll(_, _, _, _)
FindAll(k, actor, sentence, i) ==
    IF i > Len(sentence) THEN <<>>
    ELSE PatternMatch(k, actor, sentence[i]) \o FindAll(k, actor, sentence, i + 1)

\* re.sub(r"\s+(and|or|but|if|when|after|before|to|that|which|for now).*$", "", obj):
\* the object is cut at the first whitespace followed by one of these words
\* (also when the word only begins a longer word, as "or" in " order");
\* an object without such a place is unchanged.
CleanObjectTable ==
    ("report files and bills" :> "report files") @@
    ("user export report files and bills" :> "user export report files") @@
    ("the order status" :> "the")

CleanObject(obj) ==
    IF obj \in DOMAIN CleanObjectTable THEN CleanObjectTable[obj] ELSE obj

FallbackUseCase(actor, verb, obj, title) ==
    [ title |-> title,
      preconditions |-> << Capitalize(actor) \o " is authenticated and authorized",
                           "System is operational and responsive" >>,
      main_flow |-> << Capitalize(actor) \o " navigates to relevant section",
                       Capitalize(actor) \o " initiates " \o verb \o " action",
                       "System validates request",
                       "System processes " \o obj,
                       "System confirms completion to " \o actor,
                       Capitalize(actor) \o " receives confirmation" >>,
      sub_flows |-> << Capitalize(actor) \o " can view additional details",
                       Capitalize(actor) \o " can customize preferences" >>,
      alternate_flows |-> << "If validation fails: System displays error and prompts correction",
                             "If system timeout: System retries and notifies " \o actor >>,
      outcomes |-> << title \o " completed successfully", "System state is updated" >>,
      stakeholders |-> << Capitalize(actor), "System" >> ]

\* The loop over the matches of one pattern; it stops at the cap.  The
\* sentence is lower-cased before matching, so actor, verb and object are
\* lower case and title.lower().strip() is the title with its actor
\* uncapitalized.
RECURSIVE MatchLoop(_, _, _, _, _)
MatchLoop(ms, i, actor, ucs, seen) ==
    IF i > Len(ms) THEN [use_cases |-> ucs, seen_titles |-> seen]
    ELSE LET verb == ms[i][1]
             obj == CleanObject(ms[i][2])
             title == Capitalize(actor) \o " " \o verb \o " " \o obj
             title_key == actor \o " " \o verb \o " " \o obj
         IN IF Len(obj) < 5 \/ Len(obj) > 100
            THEN MatchLoop(ms, i + 1, actor, ucs, seen)
            ELSE IF ~InSeq(verb, ACTION_VERBS)
            THEN MatchLoop(ms, i + 1, actor, ucs, seen)
            ELSE IF title_key \in seen \/ Len(title) < 15
            THEN MatchLoop(ms, i + 1, actor, ucs, seen)
            ELSE LET added == Append(ucs, FallbackUseCase(actor, verb, obj, title))
                 IN IF Len(added) >= FallbackCap
                    THEN [use_cases |-> added, seen_titles |-> seen \cup {title_key}]
                    ELSE MatchLoop(ms, i + 1, actor, added, seen \cup {title_key})

FallbackStart(text) ==
    [ sentences |-> FallbackSentences(text), si |-> 1, ai |-> 1, pi |-> 1,
      use_cases |-> <<>>, seen_titles |-> {},
      done |-> FallbackSentences(text) = <<>> ]

\* One pattern of one actor on one sentence, then the loop control that
\* follows it: the cap is tested after the last pattern of an actor (and
\* then once more after the actor loop), not between two patterns.
FallbackStep(s) ==
    LET ms == FindAll(s.pi, ACTORS[s.ai], s.sentences[s.si], 1)
        r == MatchLoop(ms, 1, ACTORS[s.ai], s.use_cases, s.seen_titles)
        t == [s EXCEPT !.use_cases = r.use_cases, !.seen_titles = r.seen_titles]
    IN IF s.pi < 3 THEN [t EXCEPT !.pi = s.pi + 1]
       ELSE IF Len(r.use_cases) >= FallbackCap THEN [t EXCEPT !.done = TRUE]
       ELSE IF s.ai < Len(ACTORS) THEN [t EXCEPT !.ai = s.ai + 1, !.pi = 1]
       ELSE IF s.si < Len(s.sentences) THEN [t EXCEPT !.si = s.si + 1, !.ai = 1, !.pi = 1]
       ELSE [t EXCEPT !.done = TRUE]

----------------------------------------------------------------------------
\* use_case_manager.py: extract_use_cases_single_stage, extract_use_cases_batch

\* str.strip(): a string of the universe without surrounding whitespace is
\* unchanged
StripTable ==
    ("  Login  " :> "Login") @@ (" login " :> "login")

Strip(s) == IF s \in DOMAIN StripTable THEN StripTable[s] ELSE s

\* A JSON value of a list field, as the model's candidates carry it: a list
\* of strings, a single string (held in v[1]) or null/absent.
JsonList(v) == [t |-> "list", v |-> v]
JsonStr(str) == [t |-> "str", v |-> <<str>>]
JsonNone == [t |-> "none", v |-> <<>>]

\* misc.py: ensure_string_list, on those shapes
ensure_string_list(value) ==
    CASE value.t = "list" -> value.v
      [] value.t = "str" -> IF Strip(value.v[1]) # "" THEN value.v ELSE <<>>
      [] value.t = "none" -> <<>>

\* The elements an LLM answer may hold
CandNonDict ==
    [ isdict |-> FALSE, has_title |-> FALSE, title |-> "",
      preconditions |-> JsonNone, main_flow |-> JsonNone, sub_flows |-> JsonNone,
      alternate_flows |-> JsonNone, outcomes |-> JsonNone, stakeholders |-> JsonNone ]

CandShort ==
    [ CandNonDict EXCEPT !.isdict = TRUE, !.has_title = TRUE, !.title = "  Login  ",
                         !.main_flow = JsonList(<<>>) ]

CandNoTitle == [ CandNonDict EXCEPT !.isdict = TRUE ]

CandThin ==
    [ CandNonDict EXCEPT !.isdict = TRUE, !.has_title = TRUE, !.title = "Authentication",
                         !.main_flow = JsonStr("User navigates to the relevant section") ]

CandFull ==
    [ isdict |-> TRUE, has_title |-> TRUE, title |-> "Admin manages user accounts",
      preconditions |-> JsonList(<<"User is logged in", "Catalog is accessible">>),
      main_flow |-> JsonList(<<"User opens the page", "User enters criteria",
                               "System displays results", "User reviews results">>),
      sub_flows |-> JsonList(<<"User can apply filters", "User can sort results">>),
      alternate_flows |-> JsonList(<<"If search fails: System displays error message",
                                     "If no results found: System suggests alternatives">>),
      outcomes |-> JsonList(<<"User finds desired books">>),
      stakeholders |-> JsonList(<<"User", "System">>) ]

Candidates == {CandNonDict, CandShort, CandNoTitle, CandThin, CandFull}

\* What one LLM call comes to, after "[" is prepended, the outermost [...]
\* is cut out, cleaned and parsed:
\*   raise      the call itself raises
\*   nobracket  the completion holds no "]"
\*   badjson    json.loads raises JSONDecodeError
\*   nonlist    the JSON root is not a list
\*   list       a list of elements
FailureKinds == {"raise", "nobracket", "badjson", "nonlist"}

NoResponse == [kind |-> "none", items |-> <<>>]

Responses(maxItems) ==
    { [kind |-> k, items |-> <<>>] : k \in FailureKinds }
    \cup { [kind |-> "list", items |-> items] :
             items \in UNION { [1..n -> Candidates] : n \in 0..maxItems } }

\* the budget without its lower clamp
BudgetNoFloor(estimated_use_cases) ==
    Min(estimated_use_cases * 120 + 80, 1200)

\* use_case_utilities.py: get_smart_token_budget
get_smart_token_budget(estimated_use_cases) ==
    LET token_budget == estimated_use_cases * 120 + 80
    IN IF Min(token_budget, 1200) > 300 THEN Min(token_budget, 1200) ELSE 300

\* validated_uc = {"title": str(uc.get("title", default)).strip(), ...}
Validated(uc, default_title) ==
    [ title |-> Strip(IF uc.has_title THEN uc.title ELSE default_title),
      preconditions |-> ensure_string_list(uc.preconditions),
      main_flow |-> ensure_string_list(uc.main_flow),
      sub_flows |-> ensure_string_list(uc.sub_flows),
      alternate_flows |-> ensure_string_list(uc.alternate_flows),
      outcomes |-> ensure_string_list(uc.outcomes),
      stakeholders |-> ensure_string_list(uc.stakeholders) ]

\* Single stage, lines 122-128: a record whose main flow has fewer than 3
\* steps is enriched, and every record is then enriched (again).
QualityEnrich(v, text) ==
    IF Len(v.main_flow) < 3
    THEN IF EnrichRaises(v, text) THEN [raised |-> TRUE, uc |-> v]
         ELSE LET e == enrich_use_case(v, text)
              IN IF EnrichRaises(e, text) THEN [raised |-> TRUE, uc |-> v]
                 ELSE [raised |-> FALSE, uc |-> enrich_use_case(e, text)]
    ELSE IF EnrichRaises(v, text) THEN [raised |-> TRUE, uc |-> v]
         ELSE [raised |-> FALSE, uc |-> enrich_use_case(v, text)]

\* the title length under which single stage drops a candidate
MinTitleLen == 10

\* Single stage, lines 96-131: the loop over the parsed elements
RECURSIVE SingleLoop(_, _, _, _)
SingleLoop(items, idx, text, acc) ==
    IF idx > Len(items) THEN [raised |-> FALSE, use_cases |-> acc]
    ELSE IF ~items[idx].isdict THEN SingleLoop(items, idx + 1, text, acc)
    ELSE LET validated_uc == Validated(items[idx], "Use Case " \o ToString(idx))
         IN IF Len(validated_uc.title) < MinTitleLen
            THEN SingleLoop(items, idx + 1, text, acc)
            ELSE LET q == QualityEnrich(validated_uc, text)
                 IN IF q.raised THEN [raised |-> TRUE, use_cases |-> acc]
                    ELSE SingleLoop(items, idx + 1, text, Append(acc, q.uc))

\* the slack over the estimate above which single stage truncates
LimitSlack == 2

\* The hard limit check with the slack forgotten
LimitCheckNoSlack(ucs, max) ==
    IF Len(ucs) > max THEN Take(ucs, max) ELSE ucs

\* Single stage, lines 133-137: the hard limit check
LimitCheck(ucs, max) ==
    IF Len(ucs) > max + LimitSlack THEN Take(ucs, max) ELSE ucs

\* Single stage with the non-list root left unhandled
SingleFailureRouteNonList(kind) == IF kind = "nonlist" THEN "raise" ELSE "fallback"

\* Single stage with the exception of the LLM call left to propagate
SingleFailureRouteReraise(kind) == IF kind = "raise" THEN "raise" ELSE "fallback"

\* Where single stage goes when the answer cannot be used: every case
\* returns extract_with_smart_fallback(text).
\*   raise, enrich_error  except Exception          (lines 154-159)
\*   nobracket            end_idx == -1             (lines 74-76)
\*   badjson              except json.JSONDecodeError (lines 146-152)
\*   nonlist              not isinstance(.., list)  (lines 88-90)
SingleFailureRoute(kind) == "fallback"

\* Batch, line 172
batch_size == 3

\* The number of batches rounded down
TotalBatchesFloor(max) == max \div batch_size

\* Batch, line 173
TotalBatches(max) == (max + batch_size - 1) \div batch_size

\* Batch, lines 176-178
BatchCount(max, num) == Min(batch_size, max - num * batch_size)

\* Batch, line 190
BatchTokens(batch_count) == batch_count * 150 + 100

\* Batch, lines 237-261: the loop over the parsed elements.  An exception of
\* enrich_use_case leaves the loop, with what was appended before it kept.
RECURSIVE BatchLoop(_, _, _, _)
BatchLoop(items, idx, text, all_use_cases) ==
    IF idx > Len(items) THEN [raised |-> FALSE, use_cases |-> all_use_cases]
    ELSE IF ~items[idx].isdict THEN BatchLoop(items, idx + 1, text, all_use_cases)
    ELSE LET validated_uc ==
                 Validated(items[idx], "Use Case " \o ToString(Len(all_use_cases) + 1))
         IN IF EnrichRaises(validated_uc, text)
            THEN [raised |-> TRUE, use_cases |-> all_use_cases]
            ELSE BatchLoop(items, idx + 1, text,
                           Append(all_use_cases, enrich_use_case(validated_uc, text)))

\* Batch mode with a failed LLM call ending the run
BatchFailureRouteAbort(kind) == IF kind = "raise" THEN "abort" ELSE "continue"

\* Where batch mode goes when a batch fails: every case is `continue`.
\*   raise, enrich_error  except Exception            (lines 271-276)
\*   nobracket            end_idx == -1               (lines 217-219)
\*   badjson              except json.JSONDecodeError (lines 267-269)
\*   nonlist              not isinstance(.., list)    (lines 228-230)
BatchFailureRoute(kind) == "continue"

----------------------------------------------------------------------------
\* chunking_strategy.py: DocumentChunker.merge_extracted_use_cases

\* A use case as the merge sees it: its title, or no "title" key
Titled(t) == [has_title |-> TRUE, title |-> t]
Untitled == [has_title |-> FALSE, title |-> ""]

\* The normalized title without the lower-casing
NormalizeTitleCased(uc) == Strip(IF uc.has_title THEN uc.title ELSE "")

\* uc.get("title", "").lower().strip()
NormalizeTitle(uc) == Strip(Lower(IF uc.has_title THEN uc.title ELSE ""))

\* if title_normalized in seen_titles
SeenBefore(title_normalized, seen_titles) == title_normalized \in seen_titles

\* the inner loop, over one chunk's use cases
RECURSIVE MergeChunkLoop(_, _, _, _)
MergeChunkLoop(chunk_uc_list, i, all_use_cases, seen_titles) ==
    IF i > Len(chunk_uc_list)
    THEN [all_use_cases |-> all_use_cases, seen_titles |-> seen_titles]
    ELSE LET title_normalized == NormalizeTitle(chunk_uc_list[i])
         IN IF SeenBefore(title_normalized, seen_titles)
            THEN MergeChunkLoop(chunk_uc_list, i + 1, all_use_cases, seen_titles)
            ELSE MergeChunkLoop(chunk_uc_list, i + 1,
                                Append(all_use_cases, chunk_uc_list[i]),
                                seen_titles \cup {title_normalized})

----------------------------------------------------------------------------
\* use_case_utilities.py: UseCaseEstimator.estimate_use_cases and
\* get_smart_max_use_cases.  Lines 41-88 of estimate_use_cases count things in
\* the text with regular expressions; the record of those counts (details) is
\* what the rest of both functions computes with, and is the input here.
\*   char_count                 len(text)
\*   action_verb_count          verbs of ACTION_VERBS found, one per verb
\*   unique_actions             len(found_actions), the same number
\*   conjunction_action_count   count_conjunction_actions(text), at least 1
\*   list_items                 bullet and numbered lines
\*   sentences_with_actions     sentences holding a verb or an actor

NoDetails ==
    [ char_count |-> 0, action_verb_count |-> 0, unique_actions |-> 0,
      conjunction_action_count |-> 1, list_items |-> 0, sentences_with_actions |-> 0 ]

RECURSIVE SeqMin(_)
SeqMin(ns) == IF Len(ns) = 1 THEN ns[1] ELSE Min(ns[1], SeqMin(Tail(ns)))

RECURSIVE SeqMax(_)
SeqMax(ns) == IF Len(ns) = 1 THEN ns[1] ELSE Max(ns[1], SeqMax(Tail(ns)))

\* lines 107-116: int(verb_estimate), the floats u * 1.5 and a * 0.8 held
\* as the integers their int() gives
VerbEstimate(d) ==
    IF d.char_count < 150 /\ d.conjunction_action_count > d.unique_actions
    THEN d.conjunction_action_count
    ELSE IF d.char_count < 100 THEN d.unique_actions
    ELSE Min((d.unique_actions * 3) \div 2, (d.action_verb_count * 4) \div 5)

\* lines 104-140: the list of estimates of the four heuristics
Estimates(d) ==
    (IF d.action_verb_count > 0 THEN <<VerbEstimate(d)>> ELSE <<>>)
    \o (IF d.list_items > 0 THEN <<d.list_items>> ELSE <<>>)
    \o (IF d.sentences_with_actions > 0
        THEN <<(d.sentences_with_actions * 3) \div 5>> ELSE <<>>)
    \o <<Max(1, d.char_count \div 150)>>

\* lines 142-163: (min_estimate, max_estimate)
estimate_use_cases(d) ==
    LET estimates == Estimates(d)
        min_estimate == Max(1, SeqMin(estimates))
        max_estimate == Min(20, SeqMax(estimates))
    IN [ min_est |-> min_estimate,
         max_est |-> IF d.char_count < 100 THEN Min(max_estimate, 2)
                     ELSE IF d.char_count < 500 THEN Min(max_estimate, 5)
                     ELSE max_estimate ]

\* get_smart_max_use_cases, lines 204-221: the estimation branch
SmartBranch(d, e) ==
    IF d.char_count < 150 /\ d.conjunction_action_count >= 2
    THEN d.conjunction_action_count
    ELSE IF d.char_count > 2000 THEN e.max_est
    ELSE IF d.unique_actions > 0 THEN Min((d.unique_actions * 3) \div 2, e.max_est)
    ELSE e.min_est

\* lines 223-233: the size-based caps
SizeCaps(d, sm) ==
    IF d.char_count < 150 /\ d.conjunction_action_count >= 2
    THEN Max(sm, d.conjunction_action_count)
    ELSE IF d.char_count < 100 THEN Min(sm, 2)
    ELSE IF d.char_count < 500 THEN Min(sm, 5)
    ELSE IF d.char_count < 2000 THEN Min(sm, 10)
    ELSE Min(sm, 20)

\* lines 235-245: the adaptive minimum
AdaptiveMinimum(d, sm) ==
    IF d.char_count < 50 /\ d.unique_actions <= 1 THEN Max(1, sm)
    ELSE IF d.char_count < 200 THEN Max(1, sm)
    ELSE Max(2, sm)

\* lines 199-252, given the estimate of line 171
get_smart_max_use_cases(d, e) ==
    Min(AdaptiveMinimum(d, SizeCaps(d, SmartBranch(d, e))), 20)

----------------------------------------------------------------------------
\* Values of each component's variables while another component runs

NoUseCase ==
    [ title |-> "", preconditions |-> <<>>, main_flow |-> <<>>, sub_flows |-> <<>>,
      alternate_flows |-> <<>>, outcomes |-> <<>>, stakeholders |-> <<>> ]

EnrichIdle ==
    /\ uc_in = NoUseCase
    /\ src_text = ""
    /\ once = NoUseCase
    /\ twice = NoUseCase
    /\ enrich_raised = FALSE
    /\ enrich_pc = "idle"

FallbackIdle ==
    /\ fb_text = <<>>
    /\ fb = FallbackStart(<<>>)
    /\ fb_result = <<>>
    /\ fb_pc = "idle"

ExtractIdle ==
    /\ ex_mode = "none"
    /\ ex_text = <<>>
    /\ max_use_cases = 0
    /\ ex_pc = "idle"
    /\ response = NoResponse
    /\ use_cases = <<>>
    /\ batch_num = 0
    /\ llm_calls = <<>>
    /\ batch_log = <<>>
    /\ ex_result = <<>>
    /\ ex_raised = FALSE

MergeIdle ==
    /\ chunk_results = <<>>
    /\ chunk_idx = 0
    /\ all_merged = <<>>
    /\ seen_merged = {}
    /\ merge_result = <<>>
    /\ merge_pc = "idle"

EstimateIdle ==
    /\ est_details = NoDetails
    /\ est_estimate = [min_est |-> 0, max_est |-> 0]
    /\ smart_max = 0
    /\ est_pc = "idle"

BudgetIdle ==
    /\ tb_log = <<>>

FlattenIdle ==
    /\ fl_data = <<>>
    /\ fl_flat = <<>>
    /\ fl_pc = "idle"

SentenceIdle ==
    /\ sc_max_tokens = 0
    /\ sc_sentences = <<>>
    /\ sc_idx = 0
    /\ current_sentences = <<>>
    /\ current_ids = <<>>
    /\ sc_chunks = <<>>
    /\ sc_chunk_ids = <<>>
    /\ sc_cuts = <<>>
    /\ sc_pc = "idle"

StoreIdle ==
    /\ st_path = "none"
    /\ use_cases_raw = <<>>
    /\ validated_use_cases = <<>>
    /\ validation_results = <<>>
    /\ db_rows = <<>>
    /\ existing_texts = <<>>
    /\ results = <<>>
    /\ stored_count = 0
    /\ st_response = <<>>
    /\ st_log = <<>>
    /\ st_idx = 0
    /\ st_pc = "idle"

ChunkIdle ==
    /\ ck_chunks = <<>>
    /\ ck_idx = 0
    /\ all_chunk_results = <<>>
    /\ chunk_summaries = <<>>
    /\ ck_order = <<>>
    /\ ck_pc = "idle"

ParseIdle ==
    /\ pr_response = [message |-> ""]
    /\ pr_pc = "idle"

UnitIdle ==
    /\ un_strategy = "none"
    /\ un_max_tokens = 0
    /\ un_parts = <<>>
    /\ un_todo = <<>>
    /\ current_chunk = <<>>
    /\ un_chunks = <<>>
    /\ un_log = <<>>
    /\ un_pc = "idle"

CleanIdle ==
    /\ cj_input = <<>>
    /\ cj_result = <<>>
    /\ cj_pc = "idle"

HistoryIdle ==
    /\ hs_table = <<>>
    /\ hs_limit = 0
    /\ conversation_history = <<>>
    /\ hs_context = <<>>
    /\ hs_pc = "idle"

RaceIdle ==
    /\ rc_rows = <<>>
    /\ rc_use_cases = <<>>
    /\ rc_existing = <<>>
    /\ rc_results = <<>>
    /\ rc_pc = <<>>

MethodIdle ==
    /\ md_details = <<>>
    /\ md_stats = <<>>
    /\ md_estimate = 0
    /\ md_ran = "none"
    /\ extraction_method = "none"
    /\ md_pc = "idle"

\* --- the fallback extractor run step by step on a family of texts

MaxTrack == 14

TrackSentence(i) == << Modal("user", "track", "order status " \o ToString(i)) >>

ClauseSearch == Modal("user", "search", "catalog items")
ClauseExport == Platform("user", "export", "report files and bills")
ClauseView == Article("user", "view", "dashboard page")

FallbackTails ==
    { <<>>,
      << <<ClauseSearch>> >>,
      << <<ClauseSearch, ClauseExport>> >>,
      << <<ClauseSearch, ClauseView>> >>,
      << <<ClauseSearch, ClauseExport, ClauseView>> >>,
      << <<ClauseExport, ClauseView>> >>,
      << <<ClauseView>> >>,
      << <<Modal("user", "track", "order status 1")>> >>,
      << <<Modal("user", "enjoy", "the sunny weather")>> >>,
      << <<Modal("user", "pay", "bills")>> >>,
      << <<Modal("administrator", "add", "idea"), ClauseSearch>> >>,
      << <<Modal("user", "add", "items"), ClauseView>> >> }

FallbackTexts ==
    { [i \in 1..n |-> TrackSentence(i)] \o tail : n \in 0..MaxTrack, tail \in FallbackTails }

FallbackInit ==
    /\ EnrichIdle
    /\ ExtractIdle
    /\ MergeIdle
    /\ EstimateIdle
    /\ BudgetIdle
    /\ FlattenIdle
    /\ SentenceIdle
    /\ StoreIdle
    /\ ChunkIdle
    /\ ParseIdle
    /\ UnitIdle
    /\ CleanIdle
    /\ HistoryIdle
    /\ RaceIdle
    /\ MethodIdle
    /\ fb_text \in FallbackTexts
    /\ fb = FallbackStart(fb_text)
    /\ fb_result = <<>>
    /\ fb_pc = "running"

FallbackLoop ==
    /\ fb_pc = "running"
    /\ ~fb.done
    /\ fb' = FallbackStep(fb)
    /\ UNCHANGED <<fb_text, fb_result, fb_pc>>
    /\ UNCHANGED <<enrichVars, extractVars, mergeVars, estimateVars, budgetVars,
                   flattenVars, sentenceVars, storeVars, chunkVars, parseVars,
                   unitVars, cleanVars, historyVars, raceVars, methodVars>>

FallbackReturn ==
    /\ fb_pc = "running"
    /\ fb.done
    /\ fb_result' = fb.use_cases
    /\ fb_pc' = "returned"
    /\ UNCHANGED <<fb_text, fb>>
    /\ UNCHANGED <<enrichVars, extractVars, mergeVars, estimateVars, budgetVars,
                   flattenVars, sentenceVars, storeVars, chunkVars, parseVars,
                   unitVars, cleanVars, historyVars, raceVars, methodVars>>

FallbackNext == FallbackLoop \/ FallbackReturn

SpecFallback == FallbackInit /\ [][FallbackNext]_vars

----------------------------------------------------------------------------
\* Enrichment applied once, then once more to its own result

ListFields == {"preconditions", "main_flow", "sub_flows", "alternate_flows",
               "outcomes", "stakeholders"}

EnrichTitles == {"", "Login", "Authentication", "Search Books",
                 "User searches the catalog", "Admin manages user accounts"}
EnrichPreconds == { <<>>, <<"User is logged in">>,
                    <<"user is authenticated and authorized">>,
                    <<"User is logged in", "Catalog is accessible">> }
EnrichMainFlows == { <<>>, <<"User navigates to the relevant section">>,
                     <<"User opens the page", "User enters criteria", "System displays results">>,
                     <<"User opens the page", "User enters criteria", "System displays results",
                       "User reviews results">> }
EnrichSubFlowsIn == { <<>>, <<"User can apply filters">>,
                      <<"User can apply filters", "User can sort results">> }
EnrichAltFlowsIn == { <<>>, <<"If search fails: System displays error message">>,
                      <<"If search fails: System displays error message",
                        "If no results found: System suggests alternatives">> }
EnrichOutcomesIn == { <<>>, <<"User finds desired books">> }
EnrichStakeholdersIn == { <<>>, <<"System">>, <<"Admin">>, <<"User", "System">> }

EnrichInit ==
    /\ FallbackIdle
    /\ ExtractIdle
    /\ MergeIdle
    /\ EstimateIdle
    /\ BudgetIdle
    /\ FlattenIdle
    /\ SentenceIdle
    /\ StoreIdle
    /\ ChunkIdle
    /\ ParseIdle
    /\ UnitIdle
    /\ CleanIdle
    /\ HistoryIdle
    /\ RaceIdle
    /\ MethodIdle
    /\ uc_in \in [ title : EnrichTitles, preconditions : EnrichPreconds,
                   main_flow : EnrichMainFlows, sub_flows : EnrichSubFlowsIn,
                   alternate_flows : EnrichAltFlowsIn, outcomes : EnrichOutcomesIn,
                   stakeholders : EnrichStakeholdersIn ]
    /\ src_text \in { RenderText(t) : t \in EnrichTexts }
    /\ once = NoUseCase
    /\ twice = NoUseCase
    /\ enrich_raised = FALSE
    /\ enrich_pc = "input"

EnrichOnce ==
    /\ enrich_pc = "input"
    /\ IF EnrichRaises(uc_in, src_text)
       THEN /\ enrich_raised' = TRUE
            /\ enrich_pc' = "raised"
            /\ once' = once
       ELSE /\ once' = enrich_use_case(uc_in, src_text)
            /\ enrich_pc' = "once"
            /\ enrich_raised' = FALSE
    /\ UNCHANGED <<uc_in, src_text, twice>>
    /\ UNCHANGED <<fallbackVars, extractVars, mergeVars, estimateVars, budgetVars,
                   flattenVars, sentenceVars, storeVars, chunkVars, parseVars,
                   unitVars, cleanVars, historyVars, raceVars, methodVars>>

EnrichTwice ==
    /\ enrich_pc = "once"
    /\ IF EnrichRaises(once, src_text)
       THEN /\ enrich_raised' = TRUE
            /\ enrich_pc' = "raised"
            /\ twice' = twice
       ELSE /\ twice' = enrich_use_case(once, src_text)
            /\ enrich_pc' = "twice"
            /\ enrich_raised' = FALSE
    /\ UNCHANGED <<uc_in, src_text, once>>
    /\ UNCHANGED <<fallbackVars, extractVars, mergeVars, estimateVars, budgetVars,
                   flattenVars, sentenceVars, storeVars, chunkVars, parseVars,
                   unitVars, cleanVars, historyVars, raceVars, methodVars>>

EnrichNext == EnrichOnce \/ EnrichTwice

SpecEnrich == EnrichInit /\ [][EnrichNext]_vars

----------------------------------------------------------------------------
\* One call of the extraction engine, single stage or batch, with the LLM's
\* answer to each call chosen freely

MaxTarget == 4
MaxItems == 4
MaxBatchItems == 2

ExtractTexts == {TextTrack, TextTimeout}

ExtractInit ==
    /\ EnrichIdle
    /\ FallbackIdle
    /\ MergeIdle
    /\ EstimateIdle
    /\ BudgetIdle
    /\ FlattenIdle
    /\ SentenceIdle
    /\ StoreIdle
    /\ ChunkIdle
    /\ ParseIdle
    /\ UnitIdle
    /\ CleanIdle
    /\ HistoryIdle
    /\ RaceIdle
    /\ MethodIdle
    /\ ex_mode \in {"single", "batch"}
    /\ ex_text \in ExtractTexts
    /\ max_use_cases \in 1..MaxTarget
    /\ ex_pc = "generate"
    /\ response = NoResponse
    /\ use_cases = <<>>
    /\ batch_num = 0
    /\ llm_calls = <<>>
    /\ batch_log = <<>>
    /\ ex_result = <<>>
    /\ ex_raised = FALSE

\* return extract_with_smart_fallback(text): the call begins
StartFallback ==
    /\ fb_text' = ex_text
    /\ fb' = FallbackStart(ex_text)
    /\ fb_result' = <<>>
    /\ fb_pc' = "running"

\* Single stage, lines 35-61: the one LLM call
SingleGenerate ==
    /\ ex_mode = "single"
    /\ ex_pc = "generate"
    /\ \E r \in Responses(MaxItems) : response' = r
    /\ llm_calls' = Append(llm_calls,
                           [count |-> max_use_cases,
                            max_new_tokens |-> get_smart_token_budget(max_use_cases)])
    /\ ex_pc' = "parse"
    /\ UNCHANGED <<ex_mode, ex_text, max_use_cases, use_cases, batch_num, batch_log,
                   ex_result, ex_raised>>
    /\ UNCHANGED <<enrichVars, fallbackVars, mergeVars, estimateVars, budgetVars,
                   flattenVars, sentenceVars, storeVars, chunkVars, parseVars,
                   unitVars, cleanVars, historyVars, raceVars, methodVars>>

SingleFailure(kind) ==
    IF SingleFailureRoute(kind) = "fallback"
    THEN /\ StartFallback
         /\ ex_pc' = "fallback"
         /\ UNCHANGED ex_raised
    ELSE /\ ex_raised' = TRUE
         /\ ex_pc' = "done"
         /\ UNCHANGED fallbackVars

\* the call raised, no "]" was found, the JSON does not parse or is no list
SingleUnusable ==
    /\ ex_mode = "single"
    /\ ex_pc = "parse"
    /\ response.kind \in FailureKinds
    /\ SingleFailure(response.kind)
    /\ UNCHANGED <<ex_mode, ex_text, max_use_cases, response, use_cases, batch_num,
                   llm_calls, batch_log, ex_result>>
    /\ UNCHANGED <<enrichVars, mergeVars, estimateVars, budgetVars, flattenVars,
                   sentenceVars, storeVars, chunkVars, parseVars, unitVars,
                   cleanVars, historyVars, raceVars, methodVars>>

\* enrich_use_case raised inside the loop
SingleEnrichError ==
    /\ ex_mode = "single"
    /\ ex_pc = "parse"
    /\ response.kind = "list"
    /\ SingleLoop(response.items, 1, RenderText(ex_text), <<>>).raised
    /\ SingleFailure("enrich_error")
    /\ UNCHANGED <<ex_mode, ex_text, max_use_cases, response, use_cases, batch_num,
                   llm_calls, batch_log, ex_result>>
    /\ UNCHANGED <<enrichVars, mergeVars, estimateVars, budgetVars, flattenVars,
                   sentenceVars, storeVars, chunkVars, parseVars, unitVars,
                   cleanVars, historyVars, raceVars, methodVars>>

\* lines 92-144: the loop, the hard limit check, return use_cases
SingleParsed ==
    /\ ex_mode = "single"
    /\ ex_pc = "parse"
    /\ response.kind = "list"
    /\ LET loop == SingleLoop(response.items, 1, RenderText(ex_text), <<>>)
       IN /\ ~loop.raised
          /\ use_cases' = loop.use_cases
          /\ ex_result' = LimitCheck(loop.use_cases, max_use_cases)
    /\ ex_pc' = "done"
    /\ UNCHANGED <<ex_mode, ex_text, max_use_cases, response, batch_num, llm_calls,
                   batch_log, ex_raised>>
    /\ UNCHANGED <<enrichVars, fallbackVars, mergeVars, estimateVars, budgetVars,
                   flattenVars, sentenceVars, storeVars, chunkVars, parseVars,
                   unitVars, cleanVars, historyVars, raceVars, methodVars>>

\* return extract_with_smart_fallback(text): the call has returned
SingleReturnFallback ==
    /\ ex_mode = "single"
    /\ ex_pc = "fallback"
    /\ fb_pc = "returned"
    /\ ex_result' = fb_result
    /\ ex_pc' = "done"
    /\ UNCHANGED <<ex_mode, ex_text, max_use_cases, response, use_cases, batch_num,
                   llm_calls, batch_log, ex_raised>>
    /\ UNCHANGED <<enrichVars, fallbackVars, mergeVars, estimateVars, budgetVars,
                   flattenVars, sentenceVars, storeVars, chunkVars, parseVars,
                   unitVars, cleanVars, historyVars, raceVars, methodVars>>

\* Batch, lines 175-208: the LLM call of batch batch_num
BatchGenerate ==
    /\ ex_mode = "batch"
    /\ ex_pc = "generate"
    /\ batch_num < TotalBatches(max_use_cases)
    /\ \E r \in Responses(MaxBatchItems) : response' = r
    /\ LET batch_count == BatchCount(max_use_cases, batch_num)
       IN llm_calls' = Append(llm_calls, [count |-> batch_count,
                                          max_new_tokens |-> BatchTokens(batch_count)])
    /\ ex_pc' = "parse"
    /\ UNCHANGED <<ex_mode, ex_text, max_use_cases, use_cases, batch_num, batch_log,
                   ex_result, ex_raised>>
    /\ UNCHANGED <<enrichVars, fallbackVars, mergeVars, estimateVars, budgetVars,
                   flattenVars, sentenceVars, storeVars, chunkVars, parseVars,
                   unitVars, cleanVars, historyVars, raceVars, methodVars>>

BatchFailure(kind) ==
    IF BatchFailureRoute(kind) = "continue"
    THEN /\ batch_num' = batch_num + 1
         /\ ex_pc' = "generate"
         /\ UNCHANGED ex_raised
    ELSE /\ ex_raised' = TRUE
         /\ ex_pc' = "done"
         /\ UNCHANGED batch_num

\* the call raised, no "]" was found, the JSON does not parse or is no list
BatchUnusable ==
    /\ ex_mode = "batch"
    /\ ex_pc = "parse"
    /\ response.kind \in FailureKinds
    /\ BatchFailure(response.kind)
    /\ batch_log' = Append(batch_log, [response |-> response, error |-> FALSE,
                                       appended |-> <<>>])
    /\ UNCHANGED <<ex_mode, ex_text, max_use_cases, response, use_cases, llm_calls,
                   ex_result>>
    /\ UNCHANGED <<enrichVars, fallbackVars, mergeVars, estimateVars, budgetVars,
                   flattenVars, sentenceVars, storeVars, chunkVars, parseVars,
                   unitVars, cleanVars, historyVars, raceVars, methodVars>>

\* enrich_use_case raised inside the loop
BatchEnrichError ==
    /\ ex_mode = "batch"
    /\ ex_pc = "parse"
    /\ response.kind = "list"
    /\ LET loop == BatchLoop(response.items, 1, RenderText(ex_text), use_cases)
       IN /\ loop.raised
          /\ use_cases' = loop.use_cases
          /\ batch_log' = Append(batch_log,
                 [response |-> response, error |-> TRUE,
                  appended |-> SubSeq(loop.use_cases, Len(use_cases) + 1,
                                      Len(loop.use_cases))])
    /\ BatchFailure("enrich_error")
    /\ UNCHANGED <<ex_mode, ex_text, max_use_cases, response, llm_calls, ex_result>>
    /\ UNCHANGED <<enrichVars, fallbackVars, mergeVars, estimateVars, budgetVars,
                   flattenVars, sentenceVars, storeVars, chunkVars, parseVars,
                   unitVars, cleanVars, historyVars, raceVars, methodVars>>

\* lines 232-265: the loop ran to its end
BatchParsed ==
    /\ ex_mode = "batch"
    /\ ex_pc = "parse"
    /\ response.kind = "list"
    /\ LET loop == BatchLoop(response.items, 1, RenderText(ex_text), use_cases)
       IN /\ ~loop.raised
          /\ use_cases' = loop.use_cases
          /\ batch_log' = Append(batch_log,
                 [response |-> response, error |-> FALSE,
                  appended |-> SubSeq(loop.use_cases, Len(use_cases) + 1,
                                      Len(loop.use_cases))])
    /\ batch_num' = batch_num + 1
    /\ ex_pc' = "generate"
    /\ UNCHANGED <<ex_mode, ex_text, max_use_cases, response, llm_calls, ex_result,
                   ex_raised>>
    /\ UNCHANGED <<enrichVars, fallbackVars, mergeVars, estimateVars, budgetVars,
                   flattenVars, sentenceVars, storeVars, chunkVars, parseVars,
                   unitVars, cleanVars, historyVars, raceVars, methodVars>>

\* line 284: return all_use_cases
BatchReturn ==
    /\ ex_mode = "batch"
    /\ ex_pc = "generate"
    /\ batch_num = TotalBatches(max_use_cases)
    /\ ex_result' = use_cases
    /\ ex_pc' = "done"
    /\ UNCHANGED <<ex_mode, ex_text, max_use_cases, response, use_cases, batch_num,
                   llm_calls, batch_log, ex_raised>>
    /\ UNCHANGED <<enrichVars, fallbackVars, mergeVars, estimateVars, budgetVars,
                   flattenVars, sentenceVars, storeVars, chunkVars, parseVars,
                   unitVars, cleanVars, historyVars, raceVars, methodVars>>

ExtractNext ==
    \/ SingleGenerate \/ SingleUnusable \/ SingleEnrichError \/ SingleParsed
    \/ FallbackLoop \/ FallbackReturn \/ SingleReturnFallback
    \/ BatchGenerate \/ BatchUnusable \/ BatchEnrichError \/ BatchParsed
    \/ BatchReturn

SpecExtract == ExtractInit /\ [][ExtractNext]_vars

----------------------------------------------------------------------------
\* One call of merge_extracted_use_cases on the results of a few chunks

MaxChunks == 2
MaxPerChunk == 2

MergeItems == { Titled("Login"), Titled(" login "), Titled("Search"), Untitled }

MergeInit ==
    /\ EnrichIdle
    /\ FallbackIdle
    /\ ExtractIdle
    /\ EstimateIdle
    /\ BudgetIdle
    /\ FlattenIdle
    /\ SentenceIdle
    /\ StoreIdle
    /\ ChunkIdle
    /\ ParseIdle
    /\ UnitIdle
    /\ CleanIdle
    /\ HistoryIdle
    /\ RaceIdle
    /\ MethodIdle
    /\ chunk_results \in UNION { [1..n -> UNION { [1..k -> MergeItems] : k \in 0..MaxPerChunk }]
                                 : n \in 0..MaxChunks }
    /\ chunk_idx = 1
    /\ all_merged = <<>>
    /\ seen_merged = {}
    /\ merge_result = <<>>
    /\ merge_pc = "merging"

\* one iteration of `for chunk_uc_list in chunk_results`
MergeChunk ==
    /\ merge_pc = "merging"
    /\ chunk_idx <= Len(chunk_results)
    /\ LET r == MergeChunkLoop(chunk_results[chunk_idx], 1, all_merged, seen_merged)
       IN /\ all_merged' = r.all_use_cases
          /\ seen_merged' = r.seen_titles
    /\ chunk_idx' = chunk_idx + 1
    /\ UNCHANGED <<chunk_results, merge_result, merge_pc>>
    /\ UNCHANGED <<enrichVars, fallbackVars, extractVars, estimateVars, budgetVars,
                   flattenVars, sentenceVars, storeVars, chunkVars, parseVars,
                   unitVars, cleanVars, historyVars, raceVars, methodVars>>

\* return all_use_cases
MergeReturn ==
    /\ merge_pc = "merging"
    /\ chunk_idx > Len(chunk_results)
    /\ merge_result' = all_merged
    /\ merge_pc' = "returned"
    /\ UNCHANGED <<chunk_results, chunk_idx, all_merged, seen_merged>>
    /\ UNCHANGED <<enrichVars, fallbackVars, extractVars, estimateVars, budgetVars,
                   flattenVars, sentenceVars, storeVars, chunkVars, parseVars,
                   unitVars, cleanVars, historyVars, raceVars, methodVars>>

MergeNext == MergeChunk \/ MergeReturn

SpecMerge == MergeInit /\ [][MergeNext]_vars

----------------------------------------------------------------------------
\* Properties of the extraction engine (SpecExtract)

SingleDone == ex_mode = "single" /\ ex_pc = "done"
BatchDone == ex_mode = "batch" /\ ex_pc = "done"

RECURSIVE Sum(_)
Sum(ns) == IF ns = <<>> THEN 0 ELSE Head(ns) + Sum(Tail(ns))

RECURSIVE Flatten(_)
Flatten(seqs) == IF seqs = <<>> THEN <<>> ELSE Head(seqs) \o Flatten(Tail(seqs))

\* The least k with k * d >= n
CeilDiv(n, d) == CHOOSE k \in 0..n : k * d >= n /\ (k - 1) * d < n

\* C1: a single-stage call never raises and always returns a list; when the
\* LLM call raises, the completion has no closing bracket, the JSON does not
\* parse or its root is not a list, what it returns is the result of the
\* fallback extractor run on the same text.
SingleStageNeverRaises ==
    SingleDone =>
        /\ ~ex_raised
        /\ DOMAIN ex_result = 1..Len(ex_result)
        /\ response.kind \in FailureKinds =>
               /\ fb_pc = "returned"
               /\ fb_text = ex_text
               /\ ex_result = fb_result

\* A single-stage call whose LLM call raised has returned the fallback's
\* non-empty result
SingleStageFallbackReturned ==
    /\ SingleDone
    /\ response.kind = "raise"
    /\ fb_pc = "returned"
    /\ Len(ex_result) >= 1
    /\ ex_result = fb_result

\* A candidate the claims call usable: an object whose title, trimmed, has
\* at least 10 characters (a missing title defaults to "Use Case <n>")
Usable(uc) == uc.isdict /\ (uc.has_title => Len(Strip(uc.title)) >= 10)
CountUsable(items) == Cardinality({ i \in 1..Len(items) : Usable(items[i]) })

\* C2: in single-stage and in batch parsing, the candidates dropped from a
\* parsed list are exactly the non-objects and those with a title shorter
\* than 10 characters; every other candidate of the list is retained.
OnlyUnusableCandidatesDropped ==
    /\ (SingleDone /\ response.kind = "list" /\ fb_pc = "idle") =>
           Len(use_cases) = CountUsable(response.items)
    /\ \A i \in 1..Len(batch_log) :
           (batch_log[i].response.kind = "list" /\ ~batch_log[i].error) =>
               Len(batch_log[i].appended) = CountUsable(batch_log[i].response.items)

\* C3: in single stage, more than max_use_cases + 2 retained use cases are
\* cut to the first max_use_cases; otherwise all are returned; a result built
\* from an LLM response never has more than max_use_cases + 2.
SingleStageHardLimit ==
    (SingleDone /\ fb_pc = "idle") =>
        /\ Len(use_cases) > max_use_cases + 2 =>
               ex_result = SubSeq(use_cases, 1, max_use_cases)
        /\ Len(use_cases) <= max_use_cases + 2 => ex_result = use_cases
        /\ Len(ex_result) <= max_use_cases + 2

\* A single-stage call that retained more than max_use_cases + 2 and
\* returned max_use_cases
SingleStageTruncated ==
    /\ SingleDone
    /\ fb_pc = "idle"
    /\ Len(use_cases) > max_use_cases + 2
    /\ Len(ex_result) = max_use_cases

CountObjects(items) == Cardinality({ i \in 1..Len(items) : items[i].isdict })

\* C4: in batch mode a failed batch (the call raises, no closing bracket,
\* unparseable JSON, non-list root) contributes nothing and the batches after
\* it still run; the call returns, in order, what every batch appended, and
\* a batch whose list was parsed to its end appended one record per object.
BatchFailureSkipsOnlyThatBatch ==
    BatchDone =>
        /\ ~ex_raised
        /\ Len(batch_log) = CeilDiv(max_use_cases, 3)
        /\ ex_result = Flatten([i \in 1..Len(batch_log) |-> batch_log[i].appended])
        /\ \A i \in 1..Len(batch_log) :
               /\ batch_log[i].response.kind \in FailureKinds =>
                      batch_log[i].appended = <<>>
               /\ (batch_log[i].response.kind = "list" /\ ~batch_log[i].error) =>
                      Len(batch_log[i].appended) = CountObjects(batch_log[i].response.items)

\* A batch call whose first batch's LLM call raised and whose second batch
\* gave the use cases it returned
BatchFailedThenSucceeded ==
    /\ BatchDone
    /\ Len(batch_log) = 2
    /\ batch_log[1].response.kind = "raise"
    /\ batch_log[2].response.kind = "list"
    /\ ~batch_log[2].error
    /\ Len(batch_log[2].appended) = 2
    /\ ex_result = batch_log[2].appended

\* C5: batch mode with target N makes ceil(N / 3) LLM calls; each asks for 1
\* to 3 use cases, all but the last for 3, the counts sum to N, and each
\* call's token budget is its count * 150 + 100.
BatchPlan ==
    BatchDone =>
        /\ Len(llm_calls) = CeilDiv(max_use_cases, 3)
        /\ \A i \in 1..Len(llm_calls) :
               /\ llm_calls[i].count \in 1..3
               /\ i < Len(llm_calls) => llm_calls[i].count = 3
               /\ llm_calls[i].max_new_tokens = llm_calls[i].count * 150 + 100
        /\ Sum([i \in 1..Len(llm_calls) |-> llm_calls[i].count]) = max_use_cases

\* A batch call with target 4: two calls, for 3 and for 1 use cases
BatchPlanOfFour ==
    /\ BatchDone
    /\ max_use_cases = 4
    /\ [i \in 1..Len(llm_calls) |-> llm_calls[i].count] = <<3, 1>>
    /\ llm_calls[2].max_new_tokens = 250

----------------------------------------------------------------------------
\* Properties of the fallback extractor (SpecFallback)

\* C6: the fallback extractor never returns more than 15 use cases.
FallbackAtMost15 == fb_pc = "returned" => Len(fb_result) <= 15

----------------------------------------------------------------------------
\* Properties of enrichment (SpecEnrich)

\* C7: every string of each of the six list fields of the input is still in
\* that field of the enriched record.
EnrichAdditiveOnly ==
    enrich_pc = "once" =>
        \A f \in ListFields : \A i \in 1..Len(uc_in[f]) : InSeq(uc_in[f][i], once[f])

\* C8: enriching an enriched record changes nothing: title and list fields
\* of the second result equal those of the first.
EnrichIdempotent == enrich_pc = "twice" => twice = once

\* C9: for any use case and text, enrichment returns a record with at least
\* 2 preconditions, 4 main-flow steps, 2 sub-flows, 2 alternate flows,
\* 1 outcome and 2 stakeholders.
EnrichMinimumSizes ==
    enrich_pc = "once" =>
        /\ Len(once.preconditions) >= 2
        /\ Len(once.main_flow) >= 4
        /\ Len(once.sub_flows) >= 2
        /\ Len(once.alternate_flows) >= 2
        /\ Len(once.outcomes) >= 1
        /\ Len(once.stakeholders) >= 2

----------------------------------------------------------------------------
\* Properties of the chunk merge (SpecMerge)

\* Titles equal up to letter case and surrounding blanks
TitleClasses == { {"Login", " login "}, {"Search"}, {""} }
TitleOf(uc) == IF uc.has_title THEN uc.title ELSE ""
SameTitle(a, b) == \E c \in TitleClasses : TitleOf(a) \in c /\ TitleOf(b) \in c

\* The items of a sequence that no earlier item shares a title with
RECURSIVE FirstOccurrences(_, _)
FirstOccurrences(flat, i) ==
    IF i > Len(flat) THEN <<>>
    ELSE (IF \E j \in 1..(i - 1) : SameTitle(flat[j], flat[i]) THEN <<>> ELSE <<flat[i]>>)
         \o FirstOccurrences(flat, i + 1)

\* C10: the merge returns the chunks' lists concatenated in chunk order with
\* every item removed whose lower-cased, trimmed title occurred earlier: one
\* item per distinct normalized title, its first occurrence, in order.
MergeKeepsFirstOccurrences ==
    merge_pc = "returned" =>
        /\ merge_result = FirstOccurrences(Flatten(chunk_results), 1)
        /\ \A i, j \in 1..Len(merge_result) :
               SameTitle(merge_result[i], merge_result[j]) => i = j
        /\ \A i \in 1..Len(chunk_results) : \A k \in 1..Len(chunk_results[i]) :
               \E j \in 1..Len(merge_result) :
                   SameTitle(merge_result[j], chunk_results[i][k])

\* A merge that dropped from the second chunk a title differing only in
\* case and blanks from one of the first chunk
MergeDroppedCaseVariant ==
    /\ merge_pc = "returned"
    /\ Len(chunk_results) = 2
    /\ chunk_results[1] = <<Titled("Login"), Untitled>>
    /\ chunk_results[2] = <<Titled(" login "), Titled("Search")>>
    /\ merge_result = <<Titled("Login"), Untitled, Titled("Search")>>

----------------------------------------------------------------------------
\* One call of get_smart_max_use_cases

MaxCount == 22

\* text lengths on both sides of every threshold of the two functions
CharCounts == {0, 30, 48, 49, 50, 99, 100, 149, 150, 199, 200, 499, 500, 1999, 2000, 2001, 9000}

\* The counts a text of the given length can have: a verb takes 3 characters
\* and a blank, "and" between two verbs 5 more, a list line 3, and a verb
\* found by its pattern is also in a sentence.
DetailsOf(c) ==
    { [ char_count |-> c, action_verb_count |-> u, unique_actions |-> u,
        conjunction_action_count |-> j, list_items |-> l, sentences_with_actions |-> n ] :
      u \in { x \in 0..MaxCount : 4 * x <= c + 1 },
      j \in { x \in 1..MaxCount : x = 1 \/ 8 * x <= c + 5 },
      l \in { x \in {0, 3, MaxCount} : 3 * x <= c },
      n \in { x \in {0, 1, 2, MaxCount} : 4 * x <= c + 1 } }

EstimateInit ==
    /\ EnrichIdle
    /\ FallbackIdle
    /\ ExtractIdle
    /\ MergeIdle
    /\ BudgetIdle
    /\ FlattenIdle
    /\ SentenceIdle
    /\ StoreIdle
    /\ ChunkIdle
    /\ ParseIdle
    /\ UnitIdle
    /\ CleanIdle
    /\ HistoryIdle
    /\ RaceIdle
    /\ MethodIdle
    /\ est_details \in { d \in UNION { DetailsOf(c) : c \in CharCounts } :
                           d.unique_actions > 0 => d.sentences_with_actions > 0 }
    /\ est_estimate = [min_est |-> 0, max_est |-> 0]
    /\ smart_max = 0
    /\ est_pc = "called"

\* line 171: min_est, max_est, details = UseCaseEstimator.estimate_use_cases(text)
EstimateUseCases ==
    /\ est_pc = "called"
    /\ est_estimate' = estimate_use_cases(est_details)
    /\ est_pc' = "estimated"
    /\ UNCHANGED <<est_details, smart_max>>
    /\ UNCHANGED <<enrichVars, fallbackVars, extractVars, mergeVars, budgetVars,
                   flattenVars, sentenceVars, storeVars, chunkVars, parseVars,
                   unitVars, cleanVars, historyVars, raceVars, methodVars>>

\* lines 199-252: return smart_max
SmartMaxReturn ==
    /\ est_pc = "estimated"
    /\ smart_max' = get_smart_max_use_cases(est_details, est_estimate)
    /\ est_pc' = "returned"
    /\ UNCHANGED <<est_details, est_estimate>>
    /\ UNCHANGED <<enrichVars, fallbackVars, extractVars, mergeVars, budgetVars,
                   flattenVars, sentenceVars, storeVars, chunkVars, parseVars,
                   unitVars, cleanVars, historyVars, raceVars, methodVars>>

EstimateNext == EstimateUseCases \/ SmartMaxReturn

SpecEstimate == EstimateInit /\ [][EstimateNext]_vars

\* C16: for every text, the empty one included, get_smart_max_use_cases
\* returns an integer from 1 to 20.
SmartMaxInRange == est_pc = "returned" => smart_max \in 1..20

\* The call on the empty text has returned 1
SmartMaxOfEmptyText ==
    /\ est_pc = "returned"
    /\ est_details = NoDetails
    /\ smart_max = 1

\* C17: the size-tiered cap always applies: under 100 characters smart_max
\* is at most 2, under 500 at most 5, under 2000 at most 10, whichever
\* branch produced the value.
SmartMaxSizeTiers ==
    est_pc = "returned" =>
        /\ est_details.char_count < 100 => smart_max <= 2
        /\ est_details.char_count < 500 => smart_max <= 5
        /\ est_details.char_count < 2000 => smart_max <= 10

\* C30: for every text the pair returned by estimate_use_cases satisfies
\* 1 <= min_estimate <= max_estimate <= 20.
EstimatePairOrdered ==
    est_pc # "called" =>
        /\ 1 <= est_estimate.min_est
        /\ est_estimate.min_est <= est_estimate.max_est
        /\ est_estimate.max_est <= 20

----------------------------------------------------------------------------
\* Calls of get_smart_token_budget(text, estimated_use_cases); the text is
\* not read by the function.

MaxBudgetCount == 12
MaxBudgetCalls == 2

BudgetInit ==
    /\ EnrichIdle
    /\ FallbackIdle
    /\ ExtractIdle
    /\ MergeIdle
    /\ EstimateIdle
    /\ FlattenIdle
    /\ SentenceIdle
    /\ StoreIdle
    /\ ChunkIdle
    /\ ParseIdle
    /\ UnitIdle
    /\ CleanIdle
    /\ HistoryIdle
    /\ RaceIdle
    /\ MethodIdle
    /\ tb_log = <<>>

BudgetCall(n) ==
    /\ Len(tb_log) < MaxBudgetCalls
    /\ tb_log' = Append(tb_log, [count |-> n, budget |-> get_smart_token_budget(n)])
    /\ UNCHANGED <<enrichVars, fallbackVars, extractVars, mergeVars, estimateVars,
                   flattenVars, sentenceVars, storeVars, chunkVars, parseVars,
                   unitVars, cleanVars, historyVars, raceVars, methodVars>>

BudgetNext == \E n \in 1..MaxBudgetCount : BudgetCall(n)

SpecBudget == BudgetInit /\ [][BudgetNext]_vars

\* C18: the token budget of n use cases is n * 120 + 80 clamped to
\* [300, 1200], and a larger n never gets a smaller budget.
TokenBudgetClampedMonotone ==
    /\ \A i \in 1..Len(tb_log) :
         LET raw == tb_log[i].count * 120 + 80
         IN tb_log[i].budget = IF raw < 300 THEN 300 ELSE IF raw > 1200 THEN 1200 ELSE raw
    /\ \A i, j \in 1..Len(tb_log) :
         tb_log[i].count <= tb_log[j].count => tb_log[i].budget <= tb_log[j].budget

\* A call clamped from below and one clamped from above
TokenBudgetBothClamps ==
    /\ Len(tb_log) = 2
    /\ tb_log[1] = [count |-> 1, budget |-> 300]
    /\ tb_log[2] = [count |-> 10, budget |-> 1200]

----------------------------------------------------------------------------
\* use_case_utilities.py: flatten_use_case.  A JSON value is a record of its
\* kind, of the text Python's str() gives for it, and of its items (the
\* elements of a list, the entries of a dict); a field the dict does not
\* hold has the kind "absent", which data.get turns into None.

JVal(kind, text, items) == [kind |-> kind, text |-> text, items |-> items]

JStr(text) == JVal("str", text, <<>>)

\* str(v)
PyStr(v) == JStr(v.text)

\* bool(value) of a value that is neither a list nor a dict
PyTruthy(v) ==
    CASE v.kind = "str" -> v.text # ""
      [] v.kind = "num" -> v.text \notin {"0", "0.0"}
      [] v.kind = "bool" -> v.text = "True"
      [] OTHER -> FALSE

\* the list branch of ensure_list without its placeholder
EnsureListNoPlaceholder(value, placeholder) ==
    IF value.kind = "list"
    THEN [ i \in 1..Len(value.items) |->
             IF value.items[i].kind # "str" THEN PyStr(value.items[i]) ELSE value.items[i] ]
    ELSE IF value.kind = "dict"
    THEN IF value.items = <<>> THEN <<JStr(placeholder)>>
         ELSE [ i \in 1..Len(value.items) |->
                  JStr(value.items[i].text \o ": " \o PyStr(value.items[i].items[1]).text) ]
    ELSE IF PyTruthy(value) THEN <<PyStr(value)>>
    ELSE <<JStr(placeholder)>>

\* lines 272-283: ensure_list(value, placeholder), every placeholder of the
\* six calls being a non-empty string
ensure_list(value, placeholder) ==
    IF value.kind = "list"
    THEN LET strs == [ i \in 1..Len(value.items) |->
                         IF value.items[i].kind # "str" THEN PyStr(value.items[i])
                         ELSE value.items[i] ]
         IN IF strs # <<>> THEN strs ELSE <<JStr(placeholder)>>
    ELSE IF value.kind = "dict"
    THEN LET strs == [ i \in 1..Len(value.items) |->
                         JStr(value.items[i].text \o ": "
                              \o PyStr(value.items[i].items[1]).text) ]
         IN IF strs # <<>> THEN strs ELSE <<JStr(placeholder)>>
    ELSE IF PyTruthy(value) THEN <<PyStr(value)>>
    ELSE <<JStr(placeholder)>>

\* lines 285-296: the placeholder of each field
Placeholder ==
    [ preconditions |-> "User is authenticated",
      main_flow |-> "Action performed",
      sub_flows |-> "Optional features available",
      alternate_flows |-> "Error handling included",
      outcomes |-> "Task completed successfully",
      stakeholders |-> "User" ]

\* lines 268-298; the title, which is copied as it is, is held as a list of
\* one value so that every field of the result has one shape
flatten_use_case(data) ==
    [ f \in ListFields \cup {"title"} |->
        IF f = "title"
        THEN IF data.title.kind = "absent" THEN <<JStr("Untitled")>> ELSE <<data.title>>
        ELSE ensure_list(data[f], Placeholder[f]) ]

\* One call of flatten_use_case

MaxPresentFields == 2

JsonValues ==
    LET null == JVal("null", "None", <<>>)
        num(text) == JVal("num", text, <<>>)
        bool(text) == JVal("bool", text, <<>>)
        entry(key, value) == JVal("entry", key, <<value>>)
    IN { null, JStr(""), JStr("User logs in"),
         num("0"), num("5"), num("0.0"), num("2.5"), bool("False"), bool("True"),
         JVal("list", "[]", <<>>),
         JVal("list", "['Open page', 5, None, [1], {'a': 1}]",
              << JStr("Open page"), num("5"), null, JVal("list", "[1]", <<num("1")>>),
                 JVal("dict", "{'a': 1}", <<entry("a", num("1"))>>) >>),
         JVal("dict", "{}", <<>>),
         JVal("dict", "{'step': 'Open page', 'count': 2, 'n': None}",
              << entry("step", JStr("Open page")), entry("count", num("2")),
                 entry("n", null) >>) }

FlattenInputs ==
    LET absent == JVal("absent", "None", <<>>)
    IN { [ f \in ListFields \cup {"title"} |->
             IF f = "title" THEN t ELSE IF f \in DOMAIN g THEN g[f] ELSE absent ] :
         t \in {absent, JVal("null", "None", <<>>), JStr("User logs in")},
         g \in UNION { [S -> JsonValues] :
                       S \in { T \in SUBSET ListFields :
                                 Cardinality(T) <= MaxPresentFields } } }

FlattenInit ==
    /\ EnrichIdle
    /\ FallbackIdle
    /\ ExtractIdle
    /\ MergeIdle
    /\ EstimateIdle
    /\ BudgetIdle
    /\ SentenceIdle
    /\ StoreIdle
    /\ ChunkIdle
    /\ ParseIdle
    /\ UnitIdle
    /\ CleanIdle
    /\ HistoryIdle
    /\ RaceIdle
    /\ MethodIdle
    /\ fl_data \in FlattenInputs
    /\ fl_flat = <<>>
    /\ fl_pc = "called"

FlattenReturn ==
    /\ fl_pc = "called"
    /\ fl_flat' = flatten_use_case(fl_data)
    /\ fl_pc' = "returned"
    /\ UNCHANGED fl_data
    /\ UNCHANGED <<enrichVars, fallbackVars, extractVars, mergeVars, estimateVars,
                   budgetVars, sentenceVars, storeVars, chunkVars, parseVars,
                   unitVars, cleanVars, historyVars, raceVars, methodVars>>

FlattenNext == FlattenReturn

SpecFlatten == FlattenInit /\ [][FlattenNext]_vars

\* C19: whatever JSON value each field holds, or if it is absent,
\* flatten_use_case returns, and each of the six list fields of the result
\* is a non-empty list of strings.
FlattenListsOfStrings ==
    fl_pc = "returned" =>
        \A f \in ListFields :
            /\ f \in DOMAIN fl_flat
            /\ fl_flat[f] # <<>>
            /\ \A i \in 1..Len(fl_flat[f]) : fl_flat[f][i].kind = "str"

\* The call has returned for a dict holding an empty list and a number
FlattenOfEmptyListAndNumber ==
    /\ fl_pc = "returned"
    /\ fl_data.main_flow = JVal("list", "[]", <<>>)
    /\ fl_data.outcomes = JVal("num", "5", <<>>)
    /\ fl_flat.main_flow = <<JStr("Action performed")>>
    /\ fl_flat.outcomes = <<JStr("5")>>
    /\ fl_flat.stakeholders = <<JStr("User")>>

----------------------------------------------------------------------------
\* chunking_strategy.py: DocumentChunker._chunk_by_sentences.  A sentence is
\* held as its length: the function reads nothing else of it.  sc_cuts keeps,
\* for every chunk the loop closed, the length current_text had at the test
\* that closed it.  current_ids and sc_chunk_ids hold, beside the lengths,
\* which sentences of the input (by position) current_sentences and every
\* chunk are made of.

\* len(" ".join(sentences))
JoinedLen(lens) == IF lens = <<>> THEN 0 ELSE Sum(lens) + Len(lens) - 1

\* __init__, line 32
max_chars_per_chunk(max_tokens) == max_tokens * 4

\* lines 190-193
SentenceLimitExceeded(lens, max_tokens) ==
    /\ JoinedLen(lens) * 4 > max_tokens * 4
    /\ Len(lens) > 1

\* the sentences carried over when the chunk starts empty
OverlapNone(lens) == <<>>

\* lines 201-205
Overlap(lens) ==
    IF Len(lens) > 2 THEN SubSeq(lens, Len(lens) - 1, Len(lens))
    ELSE SubSeq(lens, Len(lens), Len(lens))

MaxSentences == 4

SentenceInit ==
    /\ EnrichIdle
    /\ FallbackIdle
    /\ ExtractIdle
    /\ MergeIdle
    /\ EstimateIdle
    /\ BudgetIdle
    /\ FlattenIdle
    /\ StoreIdle
    /\ ChunkIdle
    /\ ParseIdle
    /\ UnitIdle
    /\ CleanIdle
    /\ HistoryIdle
    /\ RaceIdle
    /\ MethodIdle
    /\ sc_max_tokens \in {5, 10}
    /\ sc_sentences \in UNION { [1..n -> {4, 10, 30}] : n \in 0..MaxSentences }
    /\ sc_idx = 1
    /\ current_sentences = <<>>
    /\ current_ids = <<>>
    /\ sc_chunks = <<>>
    /\ sc_chunk_ids = <<>>
    /\ sc_cuts = <<>>
    /\ sc_pc = "loop"

\* lines 185-205: one sentence of the loop
SentenceStep ==
    /\ sc_pc = "loop"
    /\ sc_idx <= Len(sc_sentences)
    /\ LET appended == Append(current_sentences, sc_sentences[sc_idx])
           appended_ids == Append(current_ids, sc_idx)
       IN IF SentenceLimitExceeded(appended, sc_max_tokens)
          THEN /\ sc_chunks' = Append(sc_chunks,
                                      JoinedLen(SubSeq(appended, 1, Len(appended) - 1)))
               /\ sc_chunk_ids' = Append(sc_chunk_ids,
                                         SubSeq(appended_ids, 1, Len(appended_ids) - 1))
               /\ sc_cuts' = Append(sc_cuts, JoinedLen(appended))
               /\ current_sentences' = Overlap(appended)
               /\ current_ids' = Overlap(appended_ids)
          ELSE /\ current_sentences' = appended
               /\ current_ids' = appended_ids
               /\ UNCHANGED <<sc_chunks, sc_chunk_ids, sc_cuts>>
    /\ sc_idx' = sc_idx + 1
    /\ UNCHANGED <<sc_max_tokens, sc_sentences, sc_pc>>
    /\ UNCHANGED <<enrichVars, fallbackVars, extractVars, mergeVars, estimateVars,
                   budgetVars, flattenVars, storeVars, chunkVars, parseVars,
                   unitVars, cleanVars, historyVars, raceVars, methodVars>>

\* lines 207-212; the chunk of the whole text, returned when there is no
\* sentence, has the length 0 here
SentenceReturn ==
    /\ sc_pc = "loop"
    /\ sc_idx > Len(sc_sentences)
    /\ sc_chunks' = IF current_sentences # <<>>
                    THEN Append(sc_chunks, JoinedLen(current_sentences))
                    ELSE IF sc_chunks # <<>> THEN sc_chunks ELSE <<0>>
    /\ sc_chunk_ids' = IF current_ids # <<>>
                       THEN Append(sc_chunk_ids, current_ids)
                       ELSE IF sc_chunk_ids # <<>> THEN sc_chunk_ids ELSE << <<>> >>
    /\ sc_pc' = "returned"
    /\ UNCHANGED <<sc_max_tokens, sc_sentences, sc_idx, current_sentences, current_ids,
                   sc_cuts>>
    /\ UNCHANGED <<enrichVars, fallbackVars, extractVars, mergeVars, estimateVars,
                   budgetVars, flattenVars, storeVars, chunkVars, parseVars,
                   unitVars, cleanVars, historyVars, raceVars, methodVars>>

SentenceNext == SentenceStep \/ SentenceReturn

SpecSentence == SentenceInit /\ [][SentenceNext]_vars

\* C20: sentence splitting starts a new chunk only when the current chunk
\* with the next sentence added would exceed max_tokens * 4 characters, the
\* limit of section and paragraph splitting.
SentenceCutsAtMaxChars ==
    \A i \in 1..Len(sc_cuts) : sc_cuts[i] > max_chars_per_chunk(sc_max_tokens)

\* The first k sentences of chunk cur are the last k sentences of chunk prev
BeginsWithLast(cur, prev, k) ==
    /\ k <= Len(cur)
    /\ k <= Len(prev)
    /\ SubSeq(cur, 1, k) = SubSeq(prev, Len(prev) - k + 1, Len(prev))

\* C21: in sentence splitting every chunk after the first begins with the
\* last one or two sentences of the chunk before it.
SentenceChunksOverlap ==
    \A i \in 2..Len(sc_chunk_ids) :
        \E k \in 1..2 : BeginsWithLast(sc_chunk_ids[i], sc_chunk_ids[i - 1], k)

\* C29: in sentence splitting no sentence is lost: every sentence of the
\* input is in at least one chunk, the sentences of a chunk are in document
\* order, and so are the first sentences of the chunks.
NoSentenceLost ==
    (sc_pc = "returned" /\ sc_sentences # <<>>) =>
        /\ \A n \in 1..Len(sc_sentences) :
              \E i \in 1..Len(sc_chunk_ids) : InSeq(n, sc_chunk_ids[i])
        /\ \A i \in 1..Len(sc_chunk_ids) :
              /\ sc_chunk_ids[i] # <<>>
              /\ \A a, b \in 1..Len(sc_chunk_ids[i]) :
                    a < b => sc_chunk_ids[i][a] < sc_chunk_ids[i][b]
        /\ \A i \in 2..Len(sc_chunk_ids) :
              sc_chunk_ids[i - 1][1] < sc_chunk_ids[i][1]

\* A call has returned three chunks of four sentences, the second and the
\* third chunk each beginning with the last sentence of the chunk before
SentencesKeptAcrossCuts ==
    /\ sc_pc = "returned"
    /\ Len(sc_sentences) = 4
    /\ sc_chunk_ids = << <<1, 2>>, <<2, 3>>, <<3, 4>> >>

----------------------------------------------------------------------------
\* use_case_validator.py: UseCaseValidator, on the records the extraction
\* engine returns: a title that is a str and six lists of str.  On such a
\* record _safe_get_list returns the list as it is, and neither validate nor
\* calculate_quality_score, flatten_use_case or UseCaseSchema(**flat) has a
\* statement that raises.

\* [w.lower() for w in title.split()]
SplitLowerTable ==
    ("User searches the catalog" :> <<"user", "searches", "the", "catalog">>) @@
    ("User searches catalog items" :> <<"user", "searches", "catalog", "items">>) @@
    ("User browses the catalog" :> <<"user", "browses", "the", "catalog">>) @@
    ("Authentication" :> <<"authentication">>)

SplitLower(title) == SplitLowerTable[title]

\* validate, lines 97-148: issues
validate(uc) ==
    LET only(list, text) == list = <<text>>
        when(cond, issue) == IF cond THEN <<issue>> ELSE <<>>
        has_system == \E i \in 1..Len(uc.stakeholders) :
                         Contains(Lower(uc.stakeholders[i]), "system")
    IN  when(WordCount(uc.title) < 3,
             "Title too short - should follow 'Actor Action Object' pattern")
     \o when(~ \E i \in 1..Len(ACTION_VERBS) : Contains(Lower(uc.title), ACTION_VERBS[i]),
             "Title should contain an action verb")
     \o when(uc.preconditions = <<>> \/ only(uc.preconditions, "No preconditions"),
             "Use case should have at least one precondition")
     \o (IF uc.main_flow = <<>> \/ only(uc.main_flow, "No main flow")
         THEN <<"Main flow is required">>
         ELSE IF Len(uc.main_flow) < 2 THEN <<"Main flow should have at least 2 steps">>
         ELSE IF Len(uc.main_flow) < 3 THEN <<"Consider adding more detail to main flow">>
         ELSE <<>>)
     \o when(only(uc.sub_flows, "No subflows") \/ uc.sub_flows = <<>>,
             "Consider adding optional/alternative sub-flows")
     \o when(only(uc.alternate_flows, "No alternate flows") \/ uc.alternate_flows = <<>>,
             "Consider adding error handling and alternate paths")
     \o when(uc.outcomes = <<>> \/ only(uc.outcomes, "No outcomes"),
             "Use case should define expected outcomes")
     \o (IF uc.stakeholders = <<>> \/ only(uc.stakeholders, "No stakeholders")
         THEN <<"Use case should identify stakeholders">>
         ELSE IF Len(uc.stakeholders) < 2
         THEN <<"Consider identifying more stakeholders (actors, systems)">>
         ELSE <<>>)
     \o when(~has_system, "Consider adding 'System' as a stakeholder")

\* calculate_quality_score, lines 166-212
calculate_quality_score(uc) ==
    LET words == SplitLower(uc.title)
        given(list, none) == list # <<>> /\ list # <<none>>
        title_score ==
            IF Len(words) >= 3
            THEN IF \E i \in 1..Len(ACTION_VERBS) : InSeq(ACTION_VERBS[i], words)
                 THEN 10 ELSE 5
            ELSE 0
        main_score ==
            IF ~given(uc.main_flow, "No main flow") THEN 0
            ELSE IF Len(uc.main_flow) >= 5 THEN 25
            ELSE IF Len(uc.main_flow) >= 3 THEN 20
            ELSE IF Len(uc.main_flow) >= 2 THEN 15
            ELSE 10
        score ==
            title_score
            + (IF given(uc.preconditions, "No preconditions")
               THEN Min(Len(uc.preconditions) * 5, 15) ELSE 0)
            + main_score
            + (IF given(uc.sub_flows, "No subflows")
               THEN Min(Len(uc.sub_flows) * 5, 15) ELSE 0)
            + (IF given(uc.alternate_flows, "No alternate flows")
               THEN Min(Len(uc.alternate_flows) * 5, 15) ELSE 0)
            + (IF given(uc.outcomes, "No outcomes")
               THEN Min(Len(uc.outcomes) * 5, 10) ELSE 0)
            + (IF given(uc.stakeholders, "No stakeholders")
               THEN Min(Len(uc.stakeholders) * 3, 10) ELSE 0)
    IN Min(score, 100)

\* flatten_use_case on such a record: the list branch of ensure_list
FlattenRecord(uc) ==
    [ f \in DOMAIN uc |->
        IF f = "title" \/ uc[f] # <<>> THEN uc[f] ELSE <<Placeholder[f]>> ]

----------------------------------------------------------------------------
\* api_parse.py: parse_use_case_fast, lines 134-241, and parse_manager.py:
\* parse_large_document_chunked, lines 74-168: the extracted use cases are
\* validated, then compared with the rows of the session and stored.

\* the candidate appended only when the validator found no issue
AppendOnlyValid(all, flat, is_valid) == IF is_valid THEN Append(all, flat) ELSE all

\* api_parse.py line 146, parse_manager.py line 86
AppendValidated(all, flat, is_valid) == Append(all, flat)

\* api_parse.py lines 148-152, parse_manager.py lines 88-95
ValidationResult(flat, is_valid, issues, quality_score) ==
    [ title |-> flat.title,
      status |-> IF is_valid THEN "valid" ELSE "valid_with_warnings",
      issues |-> issues,
      quality_score |-> quality_score ]

\* use_case_utilities.py, compute_usecase_embedding, line 303: the text that
\* is embedded
EmbedText(uc) == uc.title \o " " \o Join(uc.main_flow, " ", 1)

\* Records the extraction engine returns
UcSearch ==
    [ title |-> "User searches the catalog",
      preconditions |-> <<"User is logged in", "Catalog is accessible">>,
      main_flow |-> <<"User opens the page", "User enters criteria",
                      "System displays results", "User reviews results">>,
      sub_flows |-> <<"User can apply filters", "User can sort results">>,
      alternate_flows |-> <<"If search fails: System displays error message",
                            "If no results: System suggests terms">>,
      outcomes |-> <<"User finds desired books">>,
      stakeholders |-> <<"User", "System">> ]

UcSearchItems == [UcSearch EXCEPT !.title = "User searches catalog items"]

UcBrowse == [UcSearch EXCEPT !.title = "User browses the catalog"]

\* enrich_use_case of the title "Authentication" with empty lists
UcAuthentication ==
    [ title |-> "Authentication",
      preconditions |-> <<"User is authenticated and authorized",
                          "System is operational and available">>,
      main_flow |-> comprehensive_flow("Authentication", "perform action"),
      sub_flows |-> <<"Authentication can view additional details and information",
                      "Authentication can customize settings and preferences",
                      "Authentication can save work and return later">>,
      alternate_flows |-> <<"If validation fails: System displays specific error message and prompts Authentication to correct input",
                            "If system error occurs: System logs error, notifies support team, and displays user-friendly message",
                            "If network timeout: System automatically retries and informs user of delay">>,
      outcomes |-> <<"Authentication is completed successfully",
                     "System state is updated appropriately",
                     "All changes are logged for audit purposes">>,
      stakeholders |-> <<"Authentication", "System", "Database">> ]

StoreCandidates == {UcSearch, UcSearchItems, UcBrowse, UcAuthentication}

\* util.cos_sim of the embeddings of two texts, in thousandths: 1000 for
\* one text twice, and for the texts of the candidates above one pair at
\* 0.850 and one at 0.849
Similarity(a, b) ==
    IF a = b THEN 1000
    ELSE IF {a, b} = {EmbedText(UcSearch), EmbedText(UcSearchItems)} THEN 850
    ELSE IF {a, b} = {EmbedText(UcSearch), EmbedText(UcBrowse)} THEN 849
    ELSE 200

\* float(torch.max(cos_sim))
MaxSim(text, texts) ==
    LET sims == { Similarity(text, texts[i]) : i \in 1..Len(texts) }
    IN CHOOSE m \in sims : \A n \in sims : n <= m

\* threshold = 0.85, in thousandths
threshold == 850

\* api_parse.py lines 185-191, parse_manager.py lines 132-139; an empty
\* existing_texts is existing_embeddings = None
IsDuplicate(text, texts) ==
    /\ texts # <<>>
    /\ MaxSim(text, texts) >= threshold

\* api_parse.py lines 216-239, parse_manager.py lines 164 and 168
ResultEntry(path, status, uc, use_case_id) ==
    IF path = "chunked" THEN [status |-> status, title |-> uc.title]
    ELSE IF status = "stored" THEN [status |-> status, id |-> use_case_id] @@ uc
    ELSE [status |-> status] @@ uc

\* stored_count += 1 for every candidate of the loop
CountEvery(count, is_duplicate) == count + 1

\* api_parse.py lines 193 and 227, parse_manager.py lines 141 and 165:
\* stored_count += 1 in the branch that inserts
CountStored(count, is_duplicate) == IF ~is_duplicate THEN count + 1 ELSE count

\* api_parse.py lines 273-275, parse_manager.py lines 201-203: the counts of
\* the response
ResponseCounts(raw, count) ==
    [extracted_count |-> Len(raw),
     stored_count |-> count,
     duplicate_count |-> Len(raw) - count]

MaxExtracted == 2

StoreInit ==
    /\ EnrichIdle
    /\ FallbackIdle
    /\ ExtractIdle
    /\ MergeIdle
    /\ EstimateIdle
    /\ BudgetIdle
    /\ FlattenIdle
    /\ SentenceIdle
    /\ ChunkIdle
    /\ ParseIdle
    /\ UnitIdle
    /\ CleanIdle
    /\ HistoryIdle
    /\ RaceIdle
    /\ MethodIdle
    /\ st_path \in {"direct", "chunked"}
    /\ use_cases_raw \in UNION { [1..n -> StoreCandidates] : n \in 1..MaxExtracted }
    \* the chunked path stores what merge_extracted_use_cases returned: no
    \* title twice
    /\ st_path = "chunked" =>
           \A i, j \in 1..Len(use_cases_raw) :
               use_cases_raw[i].title = use_cases_raw[j].title => i = j
    /\ db_rows \in {<<>>, <<UcSearch>>}
    /\ validated_use_cases = <<>>
    /\ validation_results = <<>>
    /\ existing_texts = <<>>
    /\ results = <<>>
    /\ stored_count = 0
    /\ st_response = <<>>
    /\ st_log = <<>>
    /\ st_idx = 1
    /\ st_pc = "validate"

\* api_parse.py lines 138-152, parse_manager.py lines 78-95
ValidateStep ==
    /\ st_pc = "validate"
    /\ st_idx <= Len(use_cases_raw)
    /\ LET uc_dict == use_cases_raw[st_idx]
           issues == validate(uc_dict)
           is_valid == Len(issues) = 0
           quality_score == calculate_quality_score(uc_dict)
           flat == FlattenRecord(uc_dict)
       IN /\ validated_use_cases' = AppendValidated(validated_use_cases, flat, is_valid)
          /\ validation_results' =
                 Append(validation_results,
                        ValidationResult(flat, is_valid, issues, quality_score))
    /\ st_idx' = st_idx + 1
    /\ UNCHANGED <<st_path, use_cases_raw, db_rows, existing_texts, results, stored_count,
                   st_response, st_log, st_pc>>
    /\ UNCHANGED <<enrichVars, fallbackVars, extractVars, mergeVars, estimateVars,
                   budgetVars, flattenVars, sentenceVars, chunkVars, parseVars,
                   unitVars, cleanVars, historyVars, raceVars, methodVars>>

\* api_parse.py lines 161-177, parse_manager.py lines 107-124: the rows of
\* the session are read once, before the loop that stores
ReadExisting ==
    /\ st_pc = "validate"
    /\ st_idx > Len(use_cases_raw)
    /\ existing_texts' = [ i \in 1..Len(db_rows) |-> EmbedText(db_rows[i]) ]
    /\ st_idx' = 1
    /\ st_pc' = "store"
    /\ UNCHANGED <<st_path, use_cases_raw, validated_use_cases, validation_results, db_rows,
                   results, stored_count, st_response, st_log>>
    /\ UNCHANGED <<enrichVars, fallbackVars, extractVars, mergeVars, estimateVars,
                   budgetVars, flattenVars, sentenceVars, chunkVars, parseVars,
                   unitVars, cleanVars, historyVars, raceVars, methodVars>>

\* api_parse.py lines 183-239, parse_manager.py lines 130-168; st_log keeps
\* what the table held when each candidate was compared
StoreStep ==
    /\ st_pc = "store"
    /\ st_idx <= Len(validated_use_cases)
    /\ LET uc == validated_use_cases[st_idx]
           is_duplicate == IsDuplicate(EmbedText(uc), existing_texts)
       IN /\ IF ~is_duplicate
             THEN /\ db_rows' = Append(db_rows, uc)
                  /\ results' = Append(results,
                                       ResultEntry(st_path, "stored", uc, Len(db_rows) + 1))
             ELSE /\ results' = Append(results,
                                       ResultEntry(st_path, "duplicate_skipped", uc, 0))
                  /\ UNCHANGED db_rows
          /\ stored_count' = CountStored(stored_count, is_duplicate)
          /\ st_log' = Append(st_log, [ text |-> EmbedText(uc),
                                        is_duplicate |-> is_duplicate,
                                        stored |-> db_rows ])
    /\ st_idx' = st_idx + 1
    /\ UNCHANGED <<st_path, use_cases_raw, validated_use_cases, validation_results,
                   existing_texts, st_response, st_pc>>
    /\ UNCHANGED <<enrichVars, fallbackVars, extractVars, mergeVars, estimateVars,
                   budgetVars, flattenVars, sentenceVars, chunkVars, parseVars,
                   unitVars, cleanVars, historyVars, raceVars, methodVars>>

\* api_parse.py lines 243-270, parse_manager.py lines 170-212
StoreReturn ==
    /\ st_pc = "store"
    /\ st_idx > Len(validated_use_cases)
    /\ st_response' = ResponseCounts(use_cases_raw, stored_count)
    /\ st_pc' = "returned"
    /\ UNCHANGED <<st_path, use_cases_raw, validated_use_cases, validation_results, db_rows,
                   existing_texts, results, stored_count, st_log, st_idx>>
    /\ UNCHANGED <<enrichVars, fallbackVars, extractVars, mergeVars, estimateVars,
                   budgetVars, flattenVars, sentenceVars, chunkVars, parseVars,
                   unitVars, cleanVars, historyVars, raceVars, methodVars>>

StoreNext == ValidateStep \/ ReadExisting \/ StoreStep \/ StoreReturn

SpecStore == StoreInit /\ [][StoreNext]_vars

\* C11: a candidate is flagged duplicate if and only if its maximum cosine
\* similarity to the use cases already stored in the session is at least
\* 0.85; with none stored, no candidate is a duplicate.
DuplicateIffSimilarToStored ==
    \A k \in 1..Len(st_log) :
        st_log[k].is_duplicate <=>
            /\ st_log[k].stored # <<>>
            /\ \E i \in 1..Len(st_log[k].stored) :
                   Similarity(st_log[k].text, EmbedText(st_log[k].stored[i])) >= 850

\* C12: a candidate flagged duplicate is not inserted, and its results
\* entry has the status "duplicate_skipped", its title and all six list
\* fields, on the direct path and on the chunked path.
DuplicateSkippedWithFullFields ==
    \A k \in 1..Len(st_log) :
        st_log[k].is_duplicate =>
            /\ results[k].status = "duplicate_skipped"
            /\ Len(st_log[k].stored) =
                 IF k < Len(st_log) THEN Len(st_log[k + 1].stored) ELSE Len(db_rows)
            /\ ListFields \cup {"title"} \subseteq DOMAIN results[k]

CountStatus(status) == Cardinality({i \in 1..Len(results) : results[i].status = status})

NoTwoStoredSimilar ==
    \A i, j \in 1..Len(db_rows) :
        i # j => Similarity(EmbedText(db_rows[i]), EmbedText(db_rows[j])) < threshold

----------------------------------------------------------------------------
\* parse_manager.py: parse_large_document_chunked.  A chunk carries, with its
\* id and size, what happens to the LLM answer for it (kind) and the use
\* cases extract_use_cases_single_stage then has to return (found): those of
\* its loop for a list, those of the fallback extractor otherwise.  ck_order
\* keeps the ids of the chunks in the order their extraction was started.

\* lines 54-58: the call for one chunk; the loop has no try around it
ChunkCall(chunk) ==
    IF chunk.kind \in FailureKinds /\ SingleFailureRoute(chunk.kind) # "fallback"
    THEN [raised |-> TRUE, use_cases |-> <<>>]
    ELSE [raised |-> FALSE, use_cases |-> chunk.found]

\* lines 61-67
ChunkSummary(chunk, chunk_use_cases) ==
    [ chunk_id |-> chunk.chunk_id,
      use_cases_found |-> Len(chunk_use_cases),
      char_count |-> chunk.char_count ]

\* line 72: merge_extracted_use_cases(all_chunk_results), which reads the
\* title of each use case and returns the first use case of each title
RECURSIVE MergeTitles(_, _, _, _)
MergeTitles(chunk_results_in, k, merged, seen) ==
    IF k > Len(chunk_results_in) THEN merged
    ELSE LET titled == [ i \in 1..Len(chunk_results_in[k]) |->
                           Titled(chunk_results_in[k][i].title) ]
             r == MergeChunkLoop(titled, 1, merged, seen)
         IN MergeTitles(chunk_results_in, k + 1, r.all_use_cases, r.seen_titles)

MergedUseCases(chunk_results_in) ==
    LET every == Flatten(chunk_results_in)
        titles == MergeTitles(chunk_results_in, 1, <<>>, {})
    IN [ i \in 1..Len(titles) |->
           every[CHOOSE j \in 1..Len(every) :
                   /\ every[j].title = titles[i].title
                   /\ \A h \in 1..(j - 1) : every[h].title # titles[i].title] ]

MaxDocChunks == 2

DocChunks(chunk_id) ==
    { [chunk_id |-> chunk_id, char_count |-> 9000, kind |-> "list", found |-> f] :
        f \in {<<>>, <<UcSearch>>, <<UcSearch, UcAuthentication>>} }
    \cup { [chunk_id |-> chunk_id, char_count |-> 9000, kind |-> k, found |-> f] :
             k \in FailureKinds, f \in {<<>>, <<UcBrowse>>} }

ChunkedInit ==
    /\ EnrichIdle
    /\ FallbackIdle
    /\ ExtractIdle
    /\ MergeIdle
    /\ EstimateIdle
    /\ BudgetIdle
    /\ FlattenIdle
    /\ SentenceIdle
    /\ ParseIdle
    /\ UnitIdle
    /\ CleanIdle
    /\ HistoryIdle
    /\ RaceIdle
    /\ MethodIdle
    /\ \E n \in 1..MaxDocChunks :
         ck_chunks \in { c \in [1..n -> UNION { DocChunks(i) : i \in 0..(n - 1) }] :
                           \A i \in 1..n : c[i].chunk_id = i - 1 }
    /\ ck_idx = 1
    /\ all_chunk_results = <<>>
    /\ chunk_summaries = <<>>
    /\ ck_order = <<>>
    /\ ck_pc = "loop"
    /\ st_path = "chunked"
    /\ db_rows \in {<<>>, <<UcSearch>>}
    /\ use_cases_raw = <<>>
    /\ validated_use_cases = <<>>
    /\ validation_results = <<>>
    /\ existing_texts = <<>>
    /\ results = <<>>
    /\ stored_count = 0
    /\ st_response = <<>>
    /\ st_log = <<>>
    /\ st_idx = 0
    /\ st_pc = "idle"

\* lines 48-69: one chunk of the loop
ChunkStep ==
    /\ ck_pc = "loop"
    /\ ck_idx <= Len(ck_chunks)
    /\ LET chunk == ck_chunks[ck_idx]
           call == ChunkCall(chunk)
       IN /\ ck_order' = Append(ck_order, chunk.chunk_id)
          /\ IF call.raised
             THEN /\ ck_pc' = "raised"
                  /\ UNCHANGED <<all_chunk_results, chunk_summaries>>
             ELSE /\ all_chunk_results' = Append(all_chunk_results, call.use_cases)
                  /\ chunk_summaries' =
                         Append(chunk_summaries, ChunkSummary(chunk, call.use_cases))
                  /\ UNCHANGED ck_pc
    /\ ck_idx' = ck_idx + 1
    /\ UNCHANGED ck_chunks
    /\ UNCHANGED <<enrichVars, fallbackVars, extractVars, mergeVars, estimateVars,
                   budgetVars, flattenVars, sentenceVars, storeVars, parseVars,
                   unitVars, cleanVars, historyVars, raceVars, methodVars>>

\* lines 71-76: the merge; the validate and store loops follow
ChunkedMerge ==
    /\ ck_pc = "loop"
    /\ ck_idx > Len(ck_chunks)
    /\ ck_pc' = "merged"
    /\ use_cases_raw' = MergedUseCases(all_chunk_results)
    /\ st_idx' = 1
    /\ st_pc' = "validate"
    /\ UNCHANGED <<ck_chunks, ck_idx, all_chunk_results, chunk_summaries, ck_order>>
    /\ UNCHANGED <<st_path, validated_use_cases, validation_results, db_rows, existing_texts,
                   results, stored_count, st_response, st_log>>
    /\ UNCHANGED <<enrichVars, fallbackVars, extractVars, mergeVars, estimateVars,
                   budgetVars, flattenVars, sentenceVars, parseVars, unitVars,
                   cleanVars, historyVars, raceVars, methodVars>>

ChunkedNext ==
    ChunkStep \/ ChunkedMerge \/ ValidateStep \/ ReadExisting \/ StoreStep \/ StoreReturn

SpecChunked == ChunkedInit /\ [][ChunkedNext]_vars

\* C13: in chunked processing the chunks are extracted one after another in
\* chunk order, a failure while extracting one chunk does not end the loop,
\* and the request returns with a summary of every chunk.
ChunksAllExtractedInOrder ==
    /\ ck_pc # "raised"
    /\ \A i \in 1..Len(ck_order) : ck_order[i] = ck_chunks[i].chunk_id
    /\ ck_pc = "merged" =>
          /\ Len(ck_order) = Len(ck_chunks)
          /\ Len(chunk_summaries) = Len(ck_chunks)
          /\ \A i \in 1..Len(ck_chunks) :
                /\ chunk_summaries[i].chunk_id = ck_chunks[i].chunk_id
                /\ chunk_summaries[i].use_cases_found = Len(ck_chunks[i].found)

\* The request has returned after the LLM call of the first chunk raised
\* and the second chunk gave a use case, which was stored
ChunkFailedNextExtracted ==
    /\ st_pc = "returned"
    /\ Len(ck_chunks) = 2
    /\ ck_chunks[1].kind = "raise"
    /\ ck_chunks[2].kind = "list"
    /\ chunk_summaries[1].use_cases_found = 0
    /\ chunk_summaries[2].use_cases_found = 1
    /\ Len(results) = 1
    /\ results[1].status = "stored"

----------------------------------------------------------------------------
\* api_parse.py: parse_use_case_fast, lines 86-132, on the texts of
\* ExtractTexts: the strategy is chosen from the statistics of the text, the
\* extraction engine runs, and an empty result is answered with a message.

\* estimate_use_cases, lines 41-102, on the two texts
TextDetails(text) ==
    IF text = TextTrack
    THEN [ char_count |-> 31, action_verb_count |-> 2, unique_actions |-> 2,
           conjunction_action_count |-> 1, list_items |-> 0, sentences_with_actions |-> 1 ]
    ELSE [ char_count |-> 20, action_verb_count |-> 0, unique_actions |-> 0,
           conjunction_action_count |-> 1, list_items |-> 0, sentences_with_actions |-> 0 ]

\* document_parser.py, categorize_text_size
categorize_text_size(char_count) ==
    IF char_count < 500 THEN "tiny"
    ELSE IF char_count < 2000 THEN "small"
    ELSE IF char_count < 8000 THEN "medium"
    ELSE IF char_count < 20000 THEN "large"
    ELSE "very_large"

\* document_parser.py, get_text_stats; estimated_tokens, len(words) * 1.3,
\* is held in tenths
get_text_stats(text) ==
    LET words == IF text = TextTrack THEN 5 ELSE 3
    IN [ characters |-> TextDetails(text).char_count,
         words |-> words,
         estimated_tokens_tenths |-> words * 13,
         size_category |-> categorize_text_size(TextDetails(text).char_count) ]

\* line 116
SmartMaxOf(text) ==
    get_smart_max_use_cases(TextDetails(text), estimate_use_cases(TextDetails(text)))

\* lines 119-126
ExtractionStrategy(stats, max_use_cases_estimate) ==
    IF stats.estimated_tokens_tenths > 3000 /\ max_use_cases_estimate >= 4
    THEN "batch" ELSE "single"

\* Every text of ExtractTexts is tiny and under 300 tokens: the direct path
\* is taken, with single-stage extraction, which computes max_use_cases
\* itself (use_case_manager.py lines 31-32).
ParseInit ==
    /\ EnrichIdle
    /\ FallbackIdle
    /\ MergeIdle
    /\ EstimateIdle
    /\ BudgetIdle
    /\ FlattenIdle
    /\ SentenceIdle
    /\ StoreIdle
    /\ ChunkIdle
    /\ UnitIdle
    /\ CleanIdle
    /\ HistoryIdle
    /\ RaceIdle
    /\ MethodIdle
    /\ ex_text \in { t \in ExtractTexts :
                       get_text_stats(t).size_category \in {"tiny", "small", "medium"} }
    /\ ex_mode = ExtractionStrategy(get_text_stats(ex_text), SmartMaxOf(ex_text))
    /\ max_use_cases = SmartMaxOf(ex_text)
    /\ ex_pc = "generate"
    /\ response = NoResponse
    /\ use_cases = <<>>
    /\ batch_num = 0
    /\ llm_calls = <<>>
    /\ batch_log = <<>>
    /\ ex_result = <<>>
    /\ ex_raised = FALSE
    /\ pr_response = [message |-> ""]
    /\ pr_pc = "extracting"

\* lines 128-132: if not use_cases_raw
ParseNoUseCases ==
    /\ pr_pc = "extracting"
    /\ ex_pc = "done"
    /\ ex_result = <<>>
    /\ pr_response' = [ message |-> "No use cases could be extracted",
                        results |-> <<>>, validation_results |-> <<>> ]
    /\ pr_pc' = "returned"
    /\ UNCHANGED <<enrichVars, fallbackVars, extractVars, mergeVars, estimateVars,
                   budgetVars, flattenVars, sentenceVars, storeVars, chunkVars,
                   unitVars, cleanVars, historyVars, raceVars, methodVars>>

\* lines 134-284: the use cases go on to be validated and stored
ParseValidateAndStore ==
    /\ pr_pc = "extracting"
    /\ ex_pc = "done"
    /\ ex_result # <<>>
    /\ pr_pc' = "storing"
    /\ UNCHANGED pr_response
    /\ UNCHANGED <<enrichVars, fallbackVars, extractVars, mergeVars, estimateVars,
                   budgetVars, flattenVars, sentenceVars, storeVars, chunkVars,
                   unitVars, cleanVars, historyVars, raceVars, methodVars>>

ParseNext ==
    \/ SingleGenerate \/ SingleUnusable \/ SingleEnrichError \/ SingleParsed
    \/ FallbackLoop \/ FallbackReturn \/ SingleReturnFallback
    \/ ParseNoUseCases \/ ParseValidateAndStore

SpecParse == ParseInit /\ [][ParseNext]_vars

\* C14: the response "No use cases could be extracted" is produced only
\* when the fallback extractor has also been run on the text and has
\* returned nothing.
NoUseCasesOnlyAfterEmptyFallback ==
    (pr_pc = "returned" /\ pr_response.message = "No use cases could be extracted") =>
        /\ fb_pc = "returned"
        /\ fb_text = ex_text
        /\ fb_result = <<>>

----------------------------------------------------------------------------
\* chunking_strategy.py: DocumentChunker._chunk_by_sections and
\* _chunk_by_paragraphs.  A part of the text is held as its length and
\* whether part.strip() is empty; current_chunk is held as the positions of
\* the parts it is joined from.  un_log keeps, for every part offered to a
\* chunk that already held one, the length of potential_chunk and whether
\* the chunk was closed.

\* the positions of the parts with a non-empty part.strip(), in order
NonBlank(parts) == SelectSeq([i \in 1..Len(parts) |-> i], LAMBDA i : ~parts[i].blank)

\* len(current_chunk): the parts joined by "\n\n"
ChunkLen(parts, ids) ==
    IF ids = <<>> THEN 0
    ELSE Sum([k \in 1..Len(ids) |-> parts[ids[k]].chars]) + 2 * (Len(ids) - 1)

\* len(potential_chunk), lines 134 and 160
PotentialLen(parts, ids, i) ==
    IF ids # <<>> THEN ChunkLen(parts, ids) + 2 + parts[i].chars ELSE parts[i].chars

\* the test with the limit of sentence splitting, len(...) * 4 > max_tokens * 4
UnitLimitAsSentences(potential_len, ids, max_tokens) ==
    /\ potential_len * 4 > max_tokens * 4
    /\ ids # <<>>

\* lines 137 and 162
UnitLimitExceeded(potential_len, ids, max_tokens) ==
    /\ potential_len > max_chars_per_chunk(max_tokens)
    /\ ids # <<>>

MaxUnits == 4

\* The parts a text is split into: re.split with the section pattern keeps
\* blank parts, which the loop skips (lines 130-131); the comprehension of
\* line 153 drops them before the loop.
UnitParts ==
    {[chars |-> 3, blank |-> FALSE], [chars |-> 10, blank |-> FALSE],
     [chars |-> 50, blank |-> FALSE], [chars |-> 1, blank |-> TRUE]}

UnitInit ==
    /\ EnrichIdle
    /\ FallbackIdle
    /\ ExtractIdle
    /\ MergeIdle
    /\ EstimateIdle
    /\ BudgetIdle
    /\ FlattenIdle
    /\ SentenceIdle
    /\ StoreIdle
    /\ ChunkIdle
    /\ ParseIdle
    /\ CleanIdle
    /\ HistoryIdle
    /\ RaceIdle
    /\ MethodIdle
    /\ un_strategy \in {"section", "paragraph"}
    /\ un_max_tokens \in {4, 5}
    /\ un_parts \in UNION { [1..n -> UnitParts] : n \in 0..MaxUnits }
    /\ un_todo = IF un_strategy = "paragraph" THEN NonBlank(un_parts)
                 ELSE [i \in 1..Len(un_parts) |-> i]
    /\ current_chunk = <<>>
    /\ un_chunks = <<>>
    /\ un_log = <<>>
    /\ un_pc = "loop"

\* lines 130-131: a blank part of section splitting is skipped
UnitSkipBlank ==
    /\ un_pc = "loop"
    /\ un_todo # <<>>
    /\ un_parts[Head(un_todo)].blank
    /\ un_todo' = Tail(un_todo)
    /\ UNCHANGED <<un_strategy, un_max_tokens, un_parts, current_chunk, un_chunks,
                   un_log, un_pc>>
    /\ UNCHANGED <<enrichVars, fallbackVars, extractVars, mergeVars, estimateVars,
                   budgetVars, flattenVars, sentenceVars, storeVars, chunkVars,
                   parseVars, cleanVars, historyVars, raceVars, methodVars>>

\* lines 134-142 and 160-167: one part of the loop
UnitStep ==
    /\ un_pc = "loop"
    /\ un_todo # <<>>
    /\ ~un_parts[Head(un_todo)].blank
    /\ LET part == Head(un_todo)
           potential_len == PotentialLen(un_parts, current_chunk, part)
           closed == UnitLimitExceeded(potential_len, current_chunk, un_max_tokens)
       IN /\ IF closed
             THEN /\ un_chunks' = Append(un_chunks, current_chunk)
                  /\ current_chunk' = <<part>>
             ELSE /\ current_chunk' = Append(current_chunk, part)
                  /\ UNCHANGED un_chunks
          /\ un_log' = IF current_chunk # <<>>
                       THEN Append(un_log, [potential |-> potential_len, closed |-> closed])
                       ELSE un_log
    /\ un_todo' = Tail(un_todo)
    /\ UNCHANGED <<un_strategy, un_max_tokens, un_parts, un_pc>>
    /\ UNCHANGED <<enrichVars, fallbackVars, extractVars, mergeVars, estimateVars,
                   budgetVars, flattenVars, sentenceVars, storeVars, chunkVars,
                   parseVars, cleanVars, historyVars, raceVars, methodVars>>

\* lines 144-148 and 169-172; the chunk of the whole text, returned when
\* every part is blank, holds no part here
UnitReturn ==
    /\ un_pc = "loop"
    /\ un_todo = <<>>
    /\ un_chunks' = IF current_chunk # <<>>
                    THEN Append(un_chunks, current_chunk)
                    ELSE IF un_chunks # <<>> THEN un_chunks ELSE << <<>> >>
    /\ un_pc' = "returned"
    /\ UNCHANGED <<un_strategy, un_max_tokens, un_parts, un_todo, current_chunk, un_log>>
    /\ UNCHANGED <<enrichVars, fallbackVars, extractVars, mergeVars, estimateVars,
                   budgetVars, flattenVars, sentenceVars, storeVars, chunkVars,
                   parseVars, cleanVars, historyVars, raceVars, methodVars>>

UnitNext == UnitSkipBlank \/ UnitStep \/ UnitReturn

SpecUnits == UnitInit /\ [][UnitNext]_vars

\* C22: in section and paragraph splitting each non-blank unit is in exactly
\* one chunk, in document order; a chunk is closed exactly when the next
\* unit would make it longer than max_tokens * 4 characters; only a chunk of
\* a single unit can be longer than that.
UnitsPartitionedWithinLimit ==
    /\ \A k \in 1..Len(un_log) :
          un_log[k].closed <=> un_log[k].potential > un_max_tokens * 4
    /\ un_pc = "returned" =>
          /\ Flatten(un_chunks) = NonBlank(un_parts)
          /\ \A c \in 1..Len(un_chunks) :
                Len(un_chunks[c]) > 1 =>
                    ChunkLen(un_parts, un_chunks[c]) <= un_max_tokens * 4

\* A call of section splitting has skipped a blank part, closed a chunk of
\* two units and returned a chunk of one unit that is over the limit
UnitsSplitAtLimit ==
    /\ un_pc = "returned"
    /\ un_strategy = "section"
    /\ un_max_tokens = 5
    /\ un_parts = <<[chars |-> 10, blank |-> FALSE], [chars |-> 1, blank |-> TRUE],
                    [chars |-> 3, blank |-> FALSE], [chars |-> 50, blank |-> FALSE]>>
    /\ un_chunks = << <<1, 3>>, <<4>> >>

----------------------------------------------------------------------------
\* llm_generation.py: clean_llm_json.  The text is held as its sequence of
\* JSON tokens: "[", "]", "{", "}", ",", ":", "str" for a string and "num"
\* for a number.  The strings hold no bracket, brace, comma, quote,
\* backslash or None/True/False, and the text has no code fence, so lines
\* 6-8 and 18-22 leave the tokens as they are.

JsonTokens == {"[", "]", "{", "}", ",", ":", "str", "num"}

\* json_str.find(tok) / json_str.rfind(tok) as positions from 1, 0 for -1
FindFirst(tokens, tok) ==
    IF \E i \in 1..Len(tokens) : tokens[i] = tok
    THEN CHOOSE i \in 1..Len(tokens) :
            /\ tokens[i] = tok
            /\ \A j \in 1..(i - 1) : tokens[j] # tok
    ELSE 0

FindLast(tokens, tok) ==
    IF \E i \in 1..Len(tokens) : tokens[i] = tok
    THEN CHOOSE i \in 1..Len(tokens) :
            /\ tokens[i] = tok
            /\ \A j \in (i + 1)..Len(tokens) : tokens[j] # tok
    ELSE 0

\* lines 10-12
FromFirstBracket(tokens) ==
    IF FindFirst(tokens, "[") > 1
    THEN SubSeq(tokens, FindFirst(tokens, "["), Len(tokens))
    ELSE tokens

\* lines 14-16
ToLastBracket(tokens) ==
    IF FindLast(tokens, "]") # 0
    THEN SubSeq(tokens, 1, FindLast(tokens, "]"))
    ELSE tokens

\* line 23: a comma directly before a closing brace or bracket is dropped
RECURSIVE DropTrailingCommas(_)
DropTrailingCommas(tokens) ==
    IF tokens = <<>> THEN <<>>
    ELSE IF /\ Head(tokens) = ","
            /\ Len(tokens) > 1
            /\ tokens[2] \in {"}", "]"}
         THEN DropTrailingCommas(Tail(tokens))
         ELSE <<Head(tokens)>> \o DropTrailingCommas(Tail(tokens))

\* json_str.count(tok)
CountToken(tokens, tok) == Cardinality({i \in 1..Len(tokens) : tokens[i] = tok})

\* tok * n
Repeat(tok, n) == [i \in 1..n |-> tok]

\* lines 25-28
CloseBraces(tokens) ==
    IF CountToken(tokens, "{") > CountToken(tokens, "}")
    THEN tokens \o Repeat("}", CountToken(tokens, "{") - CountToken(tokens, "}"))
    ELSE tokens

\* lines 30-33
CloseBrackets(tokens) ==
    IF CountToken(tokens, "[") > CountToken(tokens, "]")
    THEN tokens \o Repeat("]", CountToken(tokens, "[") - CountToken(tokens, "]"))
    ELSE tokens

clean_llm_json(tokens) ==
    CloseBrackets(CloseBraces(DropTrailingCommas(ToLastBracket(FromFirstBracket(tokens)))))

\* The JSON grammar on tokens, as json.loads reads it: a state is the stack
\* of the open containers and what may come next.
JsonStart == [stack |-> <<>>, mode |-> "value"]

JsonFail == [stack |-> <<>>, mode |-> "fail"]

AfterValue(stack) == [stack |-> stack, mode |-> IF stack = <<>> THEN "done" ELSE "after"]

Pop(stack) == SubSeq(stack, 1, Len(stack) - 1)

OnValue(st, tok) ==
    CASE tok \in {"str", "num"} -> AfterValue(st.stack)
      [] tok = "[" -> [stack |-> Append(st.stack, "A"), mode |-> "elem_or_close"]
      [] tok = "{" -> [stack |-> Append(st.stack, "O"), mode |-> "key_or_close"]
      [] OTHER -> JsonFail

JsonStep(st, tok) ==
    CASE st.mode = "value" -> OnValue(st, tok)
      [] st.mode = "elem_or_close" ->
            IF tok = "]" THEN AfterValue(Pop(st.stack)) ELSE OnValue(st, tok)
      [] st.mode = "key_or_close" ->
            IF tok = "}" THEN AfterValue(Pop(st.stack))
            ELSE IF tok = "str" THEN [st EXCEPT !.mode = "colon"]
            ELSE JsonFail
      [] st.mode = "key" ->
            IF tok = "str" THEN [st EXCEPT !.mode = "colon"] ELSE JsonFail
      [] st.mode = "colon" ->
            IF tok = ":" THEN [st EXCEPT !.mode = "value"] ELSE JsonFail
      [] st.mode = "after" ->
            IF st.stack[Len(st.stack)] = "A"
            THEN IF tok = "," THEN [st EXCEPT !.mode = "value"]
                 ELSE IF tok = "]" THEN AfterValue(Pop(st.stack))
                 ELSE JsonFail
            ELSE IF tok = "," THEN [st EXCEPT !.mode = "key"]
                 ELSE IF tok = "}" THEN AfterValue(Pop(st.stack))
                 ELSE JsonFail
      [] OTHER -> JsonFail

RECURSIVE JsonRun(_, _)
JsonRun(st, tokens) ==
    IF tokens = <<>> THEN st ELSE JsonRun(JsonStep(st, Head(tokens)), Tail(tokens))

\* json.loads(text) returns
Parses(tokens) == JsonRun(JsonStart, tokens).mode = "done"

MaxTokens == 6

\* The well-formed JSON arrays cut off between two tokens: the token
\* sequences that begin with "[" and that json.loads has not rejected yet.
RECURSIVE CutArrays(_)
CutArrays(n) ==
    IF n = 1 THEN {<<"[">>}
    ELSE CutArrays(n - 1) \cup
         {Append(p, tok) : p \in {q \in CutArrays(n - 1) :
                                      /\ Len(q) = n - 1
                                      /\ JsonRun(JsonStart, q).mode # "fail"},
                           tok \in JsonTokens}

CleanInit ==
    /\ EnrichIdle
    /\ FallbackIdle
    /\ ExtractIdle
    /\ MergeIdle
    /\ EstimateIdle
    /\ BudgetIdle
    /\ FlattenIdle
    /\ SentenceIdle
    /\ StoreIdle
    /\ ChunkIdle
    /\ ParseIdle
    /\ UnitIdle
    /\ HistoryIdle
    /\ RaceIdle
    /\ MethodIdle
    /\ cj_input \in {p \in CutArrays(MaxTokens) :
                        JsonRun(JsonStart, p).mode \notin {"fail", "done"}}
    /\ cj_result = <<>>
    /\ cj_pc = "called"

CleanReturn ==
    /\ cj_pc = "called"
    /\ cj_result' = clean_llm_json(cj_input)
    /\ cj_pc' = "returned"
    /\ UNCHANGED cj_input
    /\ UNCHANGED <<enrichVars, fallbackVars, extractVars, mergeVars, estimateVars,
                   budgetVars, flattenVars, sentenceVars, storeVars, chunkVars,
                   parseVars, unitVars, historyVars, raceVars, methodVars>>

CleanNext == CleanReturn

SpecClean == CleanInit /\ [][CleanNext]_vars

\* C25: for a well-formed JSON array cut off at any point between tokens,
\* clean_llm_json returns syntactically parseable JSON.
CleanedCutArrayParses == cj_pc = "returned" => Parses(cj_result)

----------------------------------------------------------------------------
\* session_db_manager.py: add_conversation_message and
\* get_conversation_history; rag.py: the conversation part of
\* build_memory_context.  A row of the table is its AUTOINCREMENT id, its
\* session and its role.

\* lines 222-239: WHERE session_id = ? ORDER BY id ASC LIMIT ?
get_conversation_history(table, session_id, limit) ==
    Take(SelectSeq(table, LAMBDA row : row.session_id = session_id), limit)

\* rag.py line 172: conversation_history[-5:]
LastFive(history) == SubSeq(history, Max(1, Len(history) - 4), Len(history))

\* rag.py lines 170-176: the messages the prompt shows
ConversationContext(history) == LastFive(history)

MaxMessages == 5

HistorySessions == {"s1", "s2"}

HistoryInit ==
    /\ EnrichIdle
    /\ FallbackIdle
    /\ ExtractIdle
    /\ MergeIdle
    /\ EstimateIdle
    /\ BudgetIdle
    /\ FlattenIdle
    /\ SentenceIdle
    /\ StoreIdle
    /\ ChunkIdle
    /\ ParseIdle
    /\ UnitIdle
    /\ CleanIdle
    /\ RaceIdle
    /\ MethodIdle
    /\ hs_table = <<>>
    /\ hs_limit \in {2, 3}
    /\ conversation_history = <<>>
    /\ hs_context = <<>>
    /\ hs_pc = "idle"

\* add_conversation_message: the table is only ever appended to, so the
\* ids of its rows are ascending
AddConversationMessage(session_id, role) ==
    /\ hs_pc = "idle"
    /\ Len(hs_table) < MaxMessages
    /\ hs_table' = Append(hs_table, [id |-> Len(hs_table) + 1,
                                     session_id |-> session_id, role |-> role])
    /\ UNCHANGED <<hs_limit, conversation_history, hs_context, hs_pc>>
    /\ UNCHANGED <<enrichVars, fallbackVars, extractVars, mergeVars, estimateVars,
                   budgetVars, flattenVars, sentenceVars, storeVars, chunkVars,
                   parseVars, unitVars, cleanVars, raceVars, methodVars>>

\* api_parse.py line 106: the history of session "s1" is read
GetConversationHistory ==
    /\ hs_pc = "idle"
    /\ conversation_history' = get_conversation_history(hs_table, "s1", hs_limit)
    /\ hs_pc' = "read"
    /\ UNCHANGED <<hs_table, hs_limit, hs_context>>
    /\ UNCHANGED <<enrichVars, fallbackVars, extractVars, mergeVars, estimateVars,
                   budgetVars, flattenVars, sentenceVars, storeVars, chunkVars,
                   parseVars, unitVars, cleanVars, raceVars, methodVars>>

\* api_parse.py line 110
BuildMemoryContext ==
    /\ hs_pc = "read"
    /\ hs_context' = ConversationContext(conversation_history)
    /\ hs_pc' = "built"
    /\ UNCHANGED <<hs_table, hs_limit, conversation_history>>
    /\ UNCHANGED <<enrichVars, fallbackVars, extractVars, mergeVars, estimateVars,
                   budgetVars, flattenVars, sentenceVars, storeVars, chunkVars,
                   parseVars, unitVars, cleanVars, raceVars, methodVars>>

HistoryNext ==
    \/ \E session_id \in HistorySessions, role \in {"user", "assistant"} :
          AddConversationMessage(session_id, role)
    \/ GetConversationHistory
    \/ BuildMemoryContext

SpecHistory == HistoryInit /\ [][HistoryNext]_vars

\* the rows of session "s1"
SessionRows == SelectSeq(hs_table, LAMBDA row : row.session_id = "s1")

\* C24: get_conversation_history returns the `limit` most recent messages
\* of the session in chronological order, so when the session holds more
\* than `limit` messages the newest one is among those returned and shown
\* in the prompt.
HistoryHoldsNewest ==
    (hs_pc = "built" /\ Len(SessionRows) > hs_limit) =>
        /\ conversation_history =
              SubSeq(SessionRows, Len(SessionRows) - hs_limit + 1, Len(SessionRows))
        /\ InSeq(SessionRows[Len(SessionRows)], hs_context)

----------------------------------------------------------------------------
\* api_parse.py: two requests of parse_use_case_fast on the same session.
\* The handler is a plain def, which the framework runs in a thread of its
\* pool, and every read and insert opens its own connection: the requests
\* interleave between the read of lines 161-165 and each insert of lines
\* 193-212.  rc_rows is the use_cases table of the session; each request has
\* one validated candidate.

Requests == {1, 2}

\* the texts compared at insert time when the table is read again
TextsOfRowsNow(read_texts, rows) == [i \in 1..Len(rows) |-> EmbedText(rows[i])]

\* lines 185-188: the candidate is compared with existing_embeddings, the
\* rows read before the loop
ComparedTexts(read_texts, rows) == read_texts

RaceInit ==
    /\ EnrichIdle
    /\ FallbackIdle
    /\ ExtractIdle
    /\ MergeIdle
    /\ EstimateIdle
    /\ BudgetIdle
    /\ FlattenIdle
    /\ SentenceIdle
    /\ StoreIdle
    /\ ChunkIdle
    /\ ParseIdle
    /\ UnitIdle
    /\ CleanIdle
    /\ HistoryIdle
    /\ MethodIdle
    /\ rc_rows \in {<<>>, <<UcSearch>>}
    /\ rc_use_cases \in [Requests -> {FlattenRecord(uc) : uc \in StoreCandidates}]
    /\ rc_existing = [r \in Requests |-> <<>>]
    /\ rc_results = [r \in Requests |-> <<>>]
    /\ rc_pc = [r \in Requests |-> "read"]

\* lines 161-177: request r reads the rows of the session
RaceRead(r) ==
    /\ rc_pc[r] = "read"
    /\ rc_existing' = [rc_existing EXCEPT ![r] =
                          [i \in 1..Len(rc_rows) |-> EmbedText(rc_rows[i])]]
    /\ rc_pc' = [rc_pc EXCEPT ![r] = "store"]
    /\ UNCHANGED <<rc_rows, rc_use_cases, rc_results>>
    /\ UNCHANGED <<enrichVars, fallbackVars, extractVars, mergeVars, estimateVars,
                   budgetVars, flattenVars, sentenceVars, storeVars, chunkVars,
                   parseVars, unitVars, cleanVars, historyVars, methodVars>>

\* lines 183-239: request r checks and stores its candidate
RaceStore(r) ==
    /\ rc_pc[r] = "store"
    /\ LET uc == rc_use_cases[r]
           is_duplicate == IsDuplicate(EmbedText(uc), ComparedTexts(rc_existing[r], rc_rows))
       IN IF ~is_duplicate
          THEN /\ rc_rows' = Append(rc_rows, uc)
               /\ rc_results' = [rc_results EXCEPT ![r] =
                                    <<ResultEntry("direct", "stored", uc, Len(rc_rows) + 1)>>]
          ELSE /\ rc_results' = [rc_results EXCEPT ![r] =
                                    <<ResultEntry("direct", "duplicate_skipped", uc, 0)>>]
               /\ UNCHANGED rc_rows
    /\ rc_pc' = [rc_pc EXCEPT ![r] = "returned"]
    /\ UNCHANGED <<rc_use_cases, rc_existing>>
    /\ UNCHANGED <<enrichVars, fallbackVars, extractVars, mergeVars, estimateVars,
                   budgetVars, flattenVars, sentenceVars, storeVars, chunkVars,
                   parseVars, unitVars, cleanVars, historyVars, methodVars>>

RaceNext == \E r \in Requests : RaceRead(r) \/ RaceStore(r)

SpecRace == RaceInit /\ [][RaceNext]_vars

\* the candidate of request r is similar to a row the request read
SimilarToRead(r) ==
    \E i \in 1..Len(rc_existing[r]) :
        Similarity(EmbedText(rc_use_cases[r]), rc_existing[r][i]) >= 850

\* C23: duplicate detection is not guarded against concurrent requests on a
\* session: when each of two requests reads the stored use cases before the
\* other writes, each stores its candidate unless it is similar to a row it
\* read, whatever the other request stores; so both persist use cases whose
\* mutual similarity is >= 0.85.
ConcurrentRequestsBothStore ==
    ((\A r \in Requests : rc_pc[r] = "returned") /\ rc_existing[1] = rc_existing[2]) =>
        /\ \A r \in Requests :
              rc_results[r][1].status =
                  IF SimilarToRead(r) THEN "duplicate_skipped" ELSE "stored"
        /\ Len(rc_rows) = Len(rc_existing[1])
                          + Cardinality({r \in Requests : ~SimilarToRead(r)})

\* Both requests read the empty session before either wrote, and both
\* stored: the session holds two use cases of similarity >= 0.85
BothStoredSimilar ==
    /\ \A r \in Requests : rc_pc[r] = "returned"
    /\ rc_existing[1] = <<>>
    /\ rc_existing[2] = <<>>
    /\ Len(rc_rows) = 2
    /\ rc_rows[1] # rc_rows[2]
    /\ Similarity(EmbedText(rc_rows[1]), EmbedText(rc_rows[2])) >= 850

----------------------------------------------------------------------------
\* api_parse.py, parse_use_case_fast on the direct path: the extraction that
\* is chosen (lines 116-126) and the one the response reports (lines
\* 245-248).  A text is held as what the estimator counts in it and its
\* number of words.

\* document_parser.py, get_text_stats, of a text of the given size
TextStats(characters, words) ==
    [ characters |-> characters,
      words |-> words,
      estimated_tokens_tenths |-> words * 13,
      size_category |-> categorize_text_size(characters) ]

\* lines 246-248
ReportedMethod(estimate) ==
    IF estimate >= 4 THEN "batch_extraction" ELSE "single_stage"

MethodCharCounts == {48, 499, 2000}

MethodWords == {13, 230, 231}

MethodInit ==
    /\ EnrichIdle
    /\ FallbackIdle
    /\ ExtractIdle
    /\ MergeIdle
    /\ EstimateIdle
    /\ BudgetIdle
    /\ FlattenIdle
    /\ SentenceIdle
    /\ StoreIdle
    /\ ChunkIdle
    /\ ParseIdle
    /\ UnitIdle
    /\ CleanIdle
    /\ HistoryIdle
    /\ RaceIdle
    /\ md_details \in { d \in UNION { DetailsOf(c) : c \in MethodCharCounts } :
                          d.unique_actions > 0 => d.sentences_with_actions > 0 }
    \* a word has a character and is followed by a space or the end
    /\ md_stats \in { TextStats(md_details.char_count, w) :
                        w \in { x \in MethodWords : 2 * x <= md_details.char_count + 1 } }
    /\ md_estimate = 0
    /\ md_ran = "none"
    /\ extraction_method = "none"
    /\ md_pc = "analysed"

\* lines 101-126: the text is tiny, small or medium; the estimate is taken
\* and the extraction chosen
MethodExtract ==
    /\ md_pc = "analysed"
    /\ md_stats.size_category \in {"tiny", "small", "medium"}
    /\ LET estimate == get_smart_max_use_cases(md_details, estimate_use_cases(md_details))
       IN /\ md_estimate' = estimate
          /\ md_ran' = ExtractionStrategy(md_stats, estimate)
    /\ md_pc' = "extracted"
    /\ UNCHANGED <<md_details, md_stats, extraction_method>>
    /\ UNCHANGED <<enrichVars, fallbackVars, extractVars, mergeVars, estimateVars,
                   budgetVars, flattenVars, sentenceVars, storeVars, chunkVars,
                   parseVars, unitVars, cleanVars, historyVars, raceVars>>

\* lines 245-284: the response, of a request that extracted use cases
MethodReport ==
    /\ md_pc = "extracted"
    /\ extraction_method' = ReportedMethod(md_estimate)
    /\ md_pc' = "returned"
    /\ UNCHANGED <<md_details, md_stats, md_estimate, md_ran>>
    /\ UNCHANGED <<enrichVars, fallbackVars, extractVars, mergeVars, estimateVars,
                   budgetVars, flattenVars, sentenceVars, storeVars, chunkVars,
                   parseVars, unitVars, cleanVars, historyVars, raceVars>>

MethodNext == MethodExtract \/ MethodReport

SpecMethod == MethodInit /\ [][MethodNext]_vars

\* C28: on the direct path the reported extraction_method names the method
\* that ran: "batch_extraction" exactly when batch mode was used (estimate
\* >= 4 and estimated tokens > 300), "single_stage" exactly when
\* single-stage extraction was used.
MethodNamesWhatRan ==
    md_pc = "returned" =>
        /\ extraction_method = "batch_extraction" <=> md_ran = "batch"
        /\ extraction_method = "single_stage" <=> md_ran = "single"
        /\ md_ran = "batch" <=>
              (md_estimate >= 4 /\ md_stats.estimated_tokens_tenths > 3000)

====
